---- MODULE Spec2Model ----
(***************************************************************************)
(* Gene-panel-designer: the region compiler (mane_utils.generate_bed_      *)
(* records), the padding step of the generation loop (app.py), the         *)
(* transcript resolver (mane_utils.fetch_ensembl_exons) and the per-gene   *)
(* generation loop of app.py.                                              *)
(*                                                                         *)
(* Coordinates are integers.  Python None is modelled by the value None    *)
(* (= -1; real coordinates are >= 1).  A record name such as "exon2_CDS"   *)
(* is modelled by the triple [region, num, part].                          *)
(***************************************************************************)
EXTENDS Integers, Sequences, FiniteSets, TLC

\* ---------------------------------------------------------------- bounds
MaxCoord == 5      \* genomic coordinates of exons and CDS lie in 1..MaxCoord
MaxExons == 3      \* a transcript has 1..MaxExons exons
MaxFlank == 2      \* flank lengths are 0 or MaxFlank
MaxPad   == 1      \* padding is 0 or MaxPad

None == -1

Max(a, b) == IF a >= b THEN a ELSE b
Min(a, b) == IF a <= b THEN a ELSE b

VARIABLES
  transcript_info,   \* the transcript model handed to generate_bed_records
  cfg,               \* the keyword arguments of the compile call
  padding,           \* the sidebar padding value
  records,           \* return value of generate_bed_records
  bed_lines,         \* the output lines (start, end, type_) after padding
  pc,                \* position of the run
  gene_idx,          \* number of table rows the generation loop has started
  row,               \* the table row being processed
  report,            \* collected diagnostics of the generation run
  exception,         \* uncaught exception that ended the run, or "none"
  call,              \* arguments of the running fetch_ensembl_exons call
  attempt,           \* loop index of the retry loop of that call
  fetched_data,      \* fetched_data of that call
  round_log,         \* response statuses received by that call, in order
  slept,             \* seconds slept after each of those responses
  tally              \* requests made while resolving the current gene, the
                     \* last canonical id found and what triggered the fallback

compileVars  == <<transcript_info, cfg, padding, records, bed_lines>>
appVars      == <<gene_idx, row, report, exception>>
resolverVars == <<call, attempt, fetched_data, round_log, slept, tally>>

\* state of the steps that run outside the generation loop
VARIABLES
  mane_df,           \* the MANE summary table
  genes,             \* the gene symbols loaded from the uploaded file
  ensembl,           \* the gene records the annotation service holds
  mapped_df          \* the table of selected transcripts, one row per gene

VARIABLES
  filter_text,       \* the value handed to parse_exon_filter
  filter_result      \* what parse_exon_filter returns or raises

VARIABLES
  lo_cache,          \* keys of _lo_cache, the loaded chain mappings
  lift_request,      \* arguments of the liftover_single_region call
  lift_result,       \* what that call returns or raises
  lookups,           \* the convert_coordinate calls made, with their answers
  bed_content,       \* the lines of the BED text to convert
  chain,             \* the hg19-to-hg38 chain: its answer for each position
  converted_lines,   \* converted_lines of _liftover_bed_content
  unmapped_lines,    \* unmapped_lines of _liftover_bed_content
  parts_log          \* the value of parts for each data line, in input order

\* the cache of chain mappings as the threads of the process see it
VARIABLES
  threads,           \* position and locals of each thread's _get_lo call
  lo_objects,        \* _lo_cache: the LiftOver object stored under each key
  built,             \* number of LiftOver objects constructed for each key
  returned           \* the objects _get_lo has returned for each key

selectVars == <<mane_df, genes, ensembl, mapped_df>>
parserVars == <<filter_text, filter_result>>
liftVars   == <<lo_cache, lift_request, lift_result, lookups>>
bedVars    == <<bed_content, chain, converted_lines, unmapped_lines, parts_log>>
cacheVars  == <<threads, lo_objects, built, returned>>
toolVars   == <<selectVars, parserVars, liftVars, bedVars, cacheVars>>
vars == <<compileVars, pc, appVars, resolverVars, toolVars>>

\* ------------------------------------------------- generate_bed_records

\* sorted(transcript_info['exons'], key=lambda x: x['start']): a stable
\* insertion of each element after the last element with start <= its own.
RECURSIVE InsertByStart(_, _)
InsertByStart(ex, s) ==
  IF s = <<>> THEN <<ex>>
  ELSE IF ex.start < Head(s).start THEN <<ex>> \o s
  ELSE <<Head(s)>> \o InsertByStart(ex, Tail(s))

RECURSIVE SortedByStart(_)
SortedByStart(s) ==
  IF s = <<>> THEN <<>>
  ELSE InsertByStart(s[Len(s)], SortedByStart(SubSeq(s, 1, Len(s) - 1)))

BedRecord(s, e, region, num, part) ==
  [start |-> s, end |-> e, region |-> region, num |-> num, part |-> part]

\* Flank5 without the guard against a TSS at the chromosome start
Flank5_NoGuard(strand, min_start, max_end, flank_5_prime) ==
  IF flank_5_prime > 0
  THEN IF strand = 1
       THEN <<BedRecord(Max(1, min_start - flank_5_prime) - 1, min_start - 1,
                        "promoter_5prime", 0, "")>>
       ELSE <<BedRecord(max_end, max_end + flank_5_prime, "promoter_5prime", 0, "")>>
  ELSE <<>>

\* 5' flank (promoter), mane_utils.py:396-409
Flank5(strand, min_start, max_end, flank_5_prime) ==
  IF flank_5_prime > 0
  THEN IF strand = 1
       THEN LET f5_start_1base == Max(1, min_start - flank_5_prime)
                f5_end_1base   == min_start - 1
            IN IF f5_end_1base >= f5_start_1base
               THEN <<BedRecord(f5_start_1base - 1, f5_end_1base, "promoter_5prime", 0, "")>>
               ELSE <<>>
       ELSE LET f5_start_1base == max_end + 1
                f5_end_1base   == max_end + flank_5_prime
            IN <<BedRecord(f5_start_1base - 1, f5_end_1base, "promoter_5prime", 0, "")>>
  ELSE <<>>

\* Flank3 that lies above the transcript on both strands
Flank3_NotStrandAware(strand, min_start, max_end, flank_3_prime) ==
  IF flank_3_prime > 0
  THEN <<BedRecord(max_end, max_end + flank_3_prime, "downstream_3prime", 0, "")>>
  ELSE <<>>

\* 3' flank (downstream), mane_utils.py:412-425
Flank3(strand, min_start, max_end, flank_3_prime) ==
  IF flank_3_prime > 0
  THEN IF strand = 1
       THEN LET f3_start_1base == max_end + 1
                f3_end_1base   == max_end + flank_3_prime
            IN <<BedRecord(f3_start_1base - 1, f3_end_1base, "downstream_3prime", 0, "")>>
       ELSE LET f3_start_1base == Max(1, min_start - flank_3_prime)
                f3_end_1base   == min_start - 1
            IN IF f3_end_1base >= f3_start_1base
               THEN <<BedRecord(f3_start_1base - 1, f3_end_1base, "downstream_3prime", 0, "")>>
               ELSE <<>>
  ELSE <<>>

\* ExonNum that numbers in genomic order on both strands
ExonNum_GenomicOrder(strand, i, total_exons) == i + 1

\* exon number of the exon at 0-based genomic position i, mane_utils.py:438-441
ExonNum(strand, i, total_exons) ==
  IF strand = 1 THEN i + 1 ELSE total_exons - i

\* PreCdsPart that labels the pre-CDS part 5'UTR on both strands
PreCdsPart_ForwardLabel(ex, exon_num, strand, cds_start, include_5utr, include_3utr) ==
  IF ex.start < cds_start
  THEN LET u_end == Min(ex.end, cds_start - 1)
           type_ == "5UTR"
       IN IF u_end >= ex.start
             /\ ((type_ = "5UTR" /\ include_5utr) \/ (type_ = "3UTR" /\ include_3utr))
          THEN <<BedRecord(ex.start - 1, u_end, "exon", exon_num, type_)>>
          ELSE <<>>
  ELSE <<>>

\* Part 1 (pre-CDS), mane_utils.py:456-472
PreCdsPart(ex, exon_num, strand, cds_start, include_5utr, include_3utr) ==
  IF ex.start < cds_start
  THEN LET u_end == Min(ex.end, cds_start - 1)
           type_ == IF strand = 1 THEN "5UTR" ELSE "3UTR"
       IN IF u_end >= ex.start
             /\ ((type_ = "5UTR" /\ include_5utr) \/ (type_ = "3UTR" /\ include_3utr))
          THEN <<BedRecord(ex.start - 1, u_end, "exon", exon_num, type_)>>
          ELSE <<>>
  ELSE <<>>

\* CdsPart whose CDS piece starts at the exon start
CdsPart_FromExonStart(ex, exon_num, cds_start, cds_end) ==
  LET c_start == ex.start
      c_end   == Min(ex.end, cds_end)
  IN IF c_end >= c_start
     THEN <<BedRecord(c_start - 1, c_end, "exon", exon_num, "CDS")>>
     ELSE <<>>

\* Part 2 (CDS), mane_utils.py:475-478
CdsPart(ex, exon_num, cds_start, cds_end) ==
  LET c_start == Max(ex.start, cds_start)
      c_end   == Min(ex.end, cds_end)
  IN IF c_end >= c_start
     THEN <<BedRecord(c_start - 1, c_end, "exon", exon_num, "CDS")>>
     ELSE <<>>

\* PostCdsPart that emits the post-CDS part whatever the UTR flags
PostCdsPart_IgnoresFlags(ex, exon_num, strand, cds_end, include_5utr, include_3utr) ==
  IF ex.end > cds_end
  THEN LET u_start == Max(ex.start, cds_end + 1)
           type_   == IF strand = 1 THEN "3UTR" ELSE "5UTR"
       IN IF ex.end >= u_start
          THEN <<BedRecord(u_start - 1, ex.end, "exon", exon_num, type_)>>
          ELSE <<>>
  ELSE <<>>

\* Part 3 (post-CDS), mane_utils.py:481-509
PostCdsPart(ex, exon_num, strand, cds_end, include_5utr, include_3utr) ==
  IF ex.end > cds_end
  THEN LET u_start == Max(ex.start, cds_end + 1)
           type_   == IF strand = 1 THEN "3UTR" ELSE "5UTR"
       IN IF ex.end >= u_start
             /\ ((type_ = "5UTR" /\ include_5utr) \/ (type_ = "3UTR" /\ include_3utr))
          THEN <<BedRecord(u_start - 1, ex.end, "exon", exon_num, type_)>>
          ELSE <<>>
  ELSE <<>>

\* body of the exon loop for one exon, mane_utils.py:433-509
ExonRegions(ex, i, strand, total_exons, cds_start, cds_end, include_5utr, include_3utr) ==
  LET exon_num == ExonNum(strand, i, total_exons)
  IN IF cds_start = None
     THEN <<BedRecord(ex.start - 1, ex.end, "exon", exon_num, "")>>
     ELSE PreCdsPart(ex, exon_num, strand, cds_start, include_5utr, include_3utr)
          \o CdsPart(ex, exon_num, cds_start, cds_end)
          \o PostCdsPart(ex, exon_num, strand, cds_end, include_5utr, include_3utr)

\* final_regions: the exon loop over exons[0..n-1], mane_utils.py:430-509
RECURSIVE FinalRegions(_, _, _, _, _, _, _)
FinalRegions(exons, n, strand, cds_start, cds_end, include_5utr, include_3utr) ==
  IF n = 0 THEN <<>>
  ELSE FinalRegions(exons, n - 1, strand, cds_start, cds_end, include_5utr, include_3utr)
       \o ExonRegions(exons[n], n - 1, strand, Len(exons), cds_start, cds_end,
                      include_5utr, include_3utr)

\* IntronNum that numbers the introns in genomic order on both strands
IntronNum_GenomicOrder(strand, i, total_exons) == i + 1

\* intron number of the intron after the exon at 0-based position i, mane_utils.py:521-524
IntronNum(strand, i, total_exons) ==
  IF strand = 1 THEN i + 1 ELSE total_exons - i - 1

\* IntronRegion that keeps the 1-based intron start
IntronRegion_OneBasedStart(exons, i, strand) ==
  LET bed_intron_start == exons[i + 1].end + 1
      bed_intron_end   == exons[i + 2].start - 1
  IN IF bed_intron_end > bed_intron_start
     THEN <<BedRecord(bed_intron_start, bed_intron_end, "intron",
                      IntronNum(strand, i, Len(exons)), "")>>
     ELSE <<>>

\* one iteration of the intron loop, mane_utils.py:518-527
IntronRegion(exons, i, strand) ==
  LET bed_intron_start == exons[i + 1].end
      bed_intron_end   == exons[i + 2].start - 1
  IN IF bed_intron_end > bed_intron_start
     THEN <<BedRecord(bed_intron_start, bed_intron_end, "intron",
                      IntronNum(strand, i, Len(exons)), "")>>
     ELSE <<>>

\* the intron loop for i in range(n), mane_utils.py:516-527
RECURSIVE IntronRegions(_, _, _)
IntronRegions(exons, n, strand) ==
  IF n <= 0 THEN <<>>
  ELSE IntronRegions(exons, n - 1, strand) \o IntronRegion(exons, n - 1, strand)

\* mane_utils.py:371-533
generate_bed_records(info, include_5utr, include_3utr, include_intron, flank_5_prime, flank_3_prime) ==
  LET exons     == SortedByStart(info.exons)
      min_start == exons[1].start
      max_end   == exons[Len(exons)].end
  IN Flank5(info.strand, min_start, max_end, flank_5_prime)
     \o Flank3(info.strand, min_start, max_end, flank_3_prime)
     \o (IF include_intron THEN IntronRegions(exons, Len(exons) - 1, info.strand) ELSE <<>>)
     \o FinalRegions(exons, Len(exons), info.strand, info.cds_start, info.cds_end,
                     include_5utr, include_3utr)

\* ------------------------------------------------- padding, app.py:595-606
\* PadRecord without the clamp of the lower bound
PadRecord_NoClamp(r, p) ==
  [start |-> r.start - p, end |-> r.end + p,
   region |-> r.region, num |-> r.num, part |-> r.part]

PadRecord(r, p) ==
  [start |-> Max(0, r.start - p), end |-> r.end + p,
   region |-> r.region, num |-> r.num, part |-> r.part]

PadRecords(rs, p) == [k \in 1..Len(rs) |-> PadRecord(rs[k], p)]

\* ------------------------------------------------- inputs
Spans == {sp \in [start : 1..MaxCoord, end : 1..MaxCoord] : sp.start <= sp.end}

\* exon lists as the annotation service returns them: non-overlapping, in
\* transcript order (ascending on the forward strand, descending on the
\* reverse strand)
Ascending(s)  == \A k \in 1..(Len(s) - 1) : s[k].end < s[k + 1].start
Descending(s) == \A k \in 1..(Len(s) - 1) : s[k + 1].end < s[k].start

ExonLists(strand) ==
  UNION {{s \in [1..n -> Spans] : IF strand = 1 THEN Ascending(s) ELSE Descending(s)}
         : n \in 1..MaxExons}

SpanLo(s) == CHOOSE x \in {s[k].start : k \in 1..Len(s)} :
               \A k \in 1..Len(s) : x <= s[k].start
SpanHi(s) == CHOOSE x \in {s[k].end : k \in 1..Len(s)} :
               \A k \in 1..Len(s) : x >= s[k].end

\* CDS boundaries: absent, or a span inside the transcribed span
CdsChoices(s) ==
  {[start |-> None, end |-> None]}
  \cup {sp \in Spans : SpanLo(s) <= sp.start /\ sp.end <= SpanHi(s)}

TranscriptModels ==
  UNION {UNION {{[strand |-> strand, exons |-> s,
                  cds_start |-> c.start, cds_end |-> c.end] : c \in CdsChoices(s)}
                : s \in ExonLists(strand)}
         : strand \in {1, -1}}

Configs ==
  [include_5utr : BOOLEAN, include_3utr : BOOLEAN, include_intron : BOOLEAN,
   flank_5_prime : {0, MaxFlank}, flank_3_prime : {0, MaxFlank}]

\* ------------------------------------------------- idle values
NoId     == "none"
NoSymbol == 0
NoData   == [strand |-> 0, exons |-> <<>>, cds_start |-> None, cds_end |-> None]
NoInfo   == [transcript_id |-> NoId, strand |-> 0, exons |-> <<>>,
             cds_start |-> None, cds_end |-> None]
NoCall   == [transcript_id |-> NoId, gene_symbol |-> NoSymbol]
NoTally  == [direct |-> 0, canonical |-> 0, rounds |-> 0, alt_id |-> NoId,
             trigger |-> "none"]
NoReport == [fallback_genes |-> <<>>, no_cds_genes |-> <<>>,
             exon_filter_errors |-> <<>>, errors |-> <<>>]
NoRow    == [symbol |-> NoSymbol]

IdleApp ==
  /\ gene_idx = 0
  /\ row = NoRow
  /\ report = NoReport
  /\ exception = "none"

IdleResolver ==
  /\ call = NoCall
  /\ attempt = 0
  /\ fetched_data = NoData
  /\ round_log = <<>>
  /\ slept = <<>>
  /\ tally = NoTally

IdleCompile ==
  /\ transcript_info = NoInfo
  /\ cfg = [include_5utr |-> FALSE, include_3utr |-> FALSE, include_intron |-> FALSE,
            flank_5_prime |-> 0, flank_3_prime |-> 0]
  /\ padding = 0
  /\ records = <<>>
  /\ bed_lines = <<>>

IdleSelect ==
  /\ mane_df = <<>>
  /\ genes = {}
  /\ ensembl = <<>>
  /\ mapped_df = {}

IdleParser ==
  /\ filter_text = <<>>
  /\ filter_result = [kind |-> "none", set |-> {}, token |-> <<>>]

NoRequest == [chrom |-> <<>>, start |-> 0, end |-> 0, from_build |-> "", to_build |-> ""]
NoResult  == [kind |-> "idle", chrom |-> <<>>, start |-> 0, end |-> 0, reason |-> ""]

IdleRegion ==
  /\ lift_request = NoRequest
  /\ lift_result = NoResult

IdleBed ==
  /\ bed_content = <<>>
  /\ chain = <<>>
  /\ converted_lines = <<>>
  /\ unmapped_lines = <<>>
  /\ parts_log = <<>>

IdleLift ==
  /\ lo_cache = {}
  /\ lookups = <<>>
  /\ IdleRegion
  /\ IdleBed

IdleCache ==
  /\ threads = <<>>
  /\ lo_objects = <<>>
  /\ built = <<>>
  /\ returned = <<>>

IdleTools ==
  /\ IdleSelect
  /\ IdleParser
  /\ IdleLift
  /\ IdleCache

\* ------------------------------------------------- the compiler applied
InitCompile ==
  /\ transcript_info \in TranscriptModels
  /\ cfg \in Configs
  /\ padding \in {0, MaxPad}
  /\ records = <<>>
  /\ bed_lines = <<>>
  /\ pc = "compile"
  /\ IdleApp
  /\ IdleResolver
  /\ IdleTools

\* InfoAfterCall of a compiler that sorts the caller's exon list in place
InfoAfterCall_SortInPlace(info) == [info EXCEPT !.exons = SortedByStart(info.exons)]

\* the caller's transcript_info once generate_bed_records has returned:
\* sorted() at mane_utils.py:383 builds a new list and no statement of the
\* function assigns into transcript_info or one of its exons
InfoAfterCall(info) == info

CompileStep ==
  /\ pc = "compile"
  /\ records' = generate_bed_records(transcript_info, cfg.include_5utr, cfg.include_3utr,
                                     cfg.include_intron, cfg.flank_5_prime, cfg.flank_3_prime)
  /\ transcript_info' = InfoAfterCall(transcript_info)
  /\ pc' = "pad"
  /\ UNCHANGED <<cfg, padding, bed_lines, appVars, resolverVars, toolVars>>

PadStep ==
  /\ pc = "pad"
  /\ bed_lines' = PadRecords(records, padding)
  /\ pc' = "done"
  /\ UNCHANGED <<transcript_info, cfg, padding, records, appVars, resolverVars, toolVars>>

NextCompile == CompileStep \/ PadStep

SpecCompile == InitCompile /\ [][NextCompile]_vars

\* ------------------------------------------------- the compiler applied twice
\* a second generate_bed_records call with the same transcript_info and the
\* same keyword arguments, as they are after the first call
Recompile ==
  /\ pc = "done"
  /\ records' = generate_bed_records(transcript_info, cfg.include_5utr, cfg.include_3utr,
                                     cfg.include_intron, cfg.flank_5_prime, cfg.flank_3_prime)
  /\ transcript_info' = InfoAfterCall(transcript_info)
  /\ pc' = "recompiled"
  /\ UNCHANGED <<cfg, padding, bed_lines, appVars, resolverVars, toolVars>>

NextRecompile == CompileStep \/ PadStep \/ Recompile

SpecRecompile == InitCompile /\ [][NextRecompile]_vars

\* ------------------------------------------------- parse_exon_filter
\* A text is a sequence of one-character strings.
Digits == <<"0", "1", "2", "3", "4", "5", "6", "7", "8", "9">>
DigitValue(c) == (CHOOSE k \in 1..10 : Digits[k] = c) - 1

\* str.isdigit() on the characters of the model's alphabet
IsDigitStr(t) == Len(t) > 0 /\ \A k \in 1..Len(t) : \E d \in 1..10 : Digits[d] = t[k]

\* int(t) for a text of digits
RECURSIVE ToInt(_)
ToInt(t) ==
  IF t = <<>> THEN 0
  ELSE 10 * ToInt(SubSeq(t, 1, Len(t) - 1)) + DigitValue(t[Len(t)])

\* str.strip()
RECURSIVE Strip(_)
Strip(t) ==
  IF t = <<>> THEN t
  ELSE IF Head(t) = " " THEN Strip(Tail(t))
  ELSE IF t[Len(t)] = " " THEN Strip(SubSeq(t, 1, Len(t) - 1))
  ELSE t

\* str.lower() on the letters of the model's alphabet
LowerChar(c) ==
  IF c = "A" THEN "a" ELSE IF c = "L" THEN "l" ELSE IF c = "N" THEN "n"
  ELSE IF c = "X" THEN "x" ELSE c
Lower(t) == [k \in 1..Len(t) |-> LowerChar(t[k])]

\* str.replace(" ", "")
IsNotSpace(c) == c # " "
RemoveSpaces(t) == SelectSeq(t, IsNotSpace)

\* str.split(sep)
RECURSIVE Split(_, _)
Split(t, sep) ==
  IF \A k \in 1..Len(t) : t[k] # sep THEN <<t>>
  ELSE LET k == CHOOSE i \in 1..Len(t) : t[i] = sep /\ \A j \in 1..(i - 1) : t[j] # sep
       IN <<SubSeq(t, 1, k - 1)>> \o Split(SubSeq(t, k + 1, Len(t)), sep)

FilterAll        == [kind |-> "all", set |-> {}, token |-> <<>>]
FilterSet(S)     == [kind |-> "set", set |-> S, token |-> <<>>]
FilterError(tok) == [kind |-> "error", set |-> {}, token |-> tok]

\* ParsePart without the check lo > hi
ParsePart_NoOrderCheck(part) ==
  IF \E k \in 1..Len(part) : part[k] = "-"
  THEN LET bounds == Split(part, "-")
       IN IF Len(bounds) # 2 \/ ~(\A k \in 1..Len(bounds) : IsDigitStr(bounds[k]))
          THEN FilterError(part)
          ELSE FilterSet(ToInt(bounds[1])..ToInt(bounds[2]))
  ELSE IF IsDigitStr(part) THEN FilterSet({ToInt(part)})
  ELSE FilterError(part)

\* one comma-separated part, app.py:29-40
ParsePart(part) ==
  IF \E k \in 1..Len(part) : part[k] = "-"
  THEN LET bounds == Split(part, "-")
       IN IF Len(bounds) # 2 \/ ~(\A k \in 1..Len(bounds) : IsDigitStr(bounds[k]))
          THEN FilterError(part)
          ELSE LET lo == ToInt(bounds[1])
                   hi == ToInt(bounds[2])
               IN IF lo > hi THEN FilterError(part) ELSE FilterSet(lo..hi)
  ELSE IF IsDigitStr(part) THEN FilterSet({ToInt(part)})
  ELSE FilterError(part)

\* the loop over the parts; the first bad part raises, app.py:27-40
RECURSIVE ParseParts(_, _)
ParseParts(parts, result) ==
  IF parts = <<>> THEN FilterSet(result)
  ELSE LET one == ParsePart(Head(parts))
       IN IF one.kind = "error" THEN one
          ELSE ParseParts(Tail(parts), result \cup one.set)

\* a missing value (None or NaN), app.py:23
Missing == <<"None">>

\* app.py:8-43 (value is a text or Missing)
parse_exon_filter(value) ==
  IF value = Missing THEN FilterAll
  ELSE IF Lower(Strip(value)) \in {<<"a", "l", "l">>, <<>>, <<"n", "a", "n">>}
  THEN FilterAll
  ELSE LET parsed == ParseParts(Split(RemoveSpaces(value), ","), {})
       IN IF parsed.kind = "set" /\ parsed.set = {} THEN FilterError(<<>>) ELSE parsed

\* truth value of a parsed filter (None and the empty set are false), app.py:551,568
Truthy(f) == f.kind = "set" /\ f.set # {}

\* ------------------------------------------------- the annotation service
AttemptBudget == 2     \* for attempt in range(2)
MaxGenes      == 2     \* the table has at most MaxGenes rows

\* outcomes of one GET: r.ok, HTTP 400, 404, 429, 5xx, or requests raising
Failures == {"bad_request", "not_found", "rate_limited", "server_error", "exception"}

\* transcript ids are pairs of a stable id and a version; split('.')[0]
StripVersion(id) == id.base
RequestedIds == {[base |-> "T1", version |-> 9]}
StableIds    == {"T1", "T2"}

\* records the service can return for a transcript id
Catalogue ==
  {[strand |-> 1,  exons |-> <<[start |-> 1, end |-> 2], [start |-> 4, end |-> 5]>>,
    cds_start |-> 2, cds_end |-> 4],
   [strand |-> -1, exons |-> <<[start |-> 5, end |-> 5], [start |-> 3, end |-> 3],
                               [start |-> 1, end |-> 1]>>,
    cds_start |-> 1, cds_end |-> 5],
   [strand |-> -1, exons |-> <<[start |-> 4, end |-> 5], [start |-> 1, end |-> 2]>>,
    cds_start |-> None, cds_end |-> None]}

LookupResponses ==
  {[status |-> "ok", data |-> d] : d \in Catalogue}
  \cup {[status |-> f, data |-> NoData] : f \in Failures}

\* the Transcript list of a gene record
GeneTranscripts == [id : StableIds, is_canonical : {0, 1}, start : {1}, end : {2, 3}]
TranscriptLists ==
  {<<>>} \cup {<<t>> : t \in GeneTranscripts}
  \cup {tu \in {<<t, u>> : t \in GeneTranscripts, u \in GeneTranscripts} : tu[1].id # tu[2].id}

SymbolResponses ==
  {[status |-> "ok", transcripts |-> ts] : ts \in TranscriptLists}
  \cup {[status |-> f, transcripts |-> <<>>] : f \in {"not_found", "exception"}}

NoSymbolResponse == [status |-> "none", transcripts |-> <<>>]

\* ------------------------------------------------- find_canonical_on_build
\* index of the first transcript flagged canonical, 0 if none, mane_utils.py:263-266
FirstCanonical(ts) ==
  IF \E k \in 1..Len(ts) : ts[k].is_canonical = 1
  THEN CHOOSE k \in 1..Len(ts) :
         ts[k].is_canonical = 1 /\ \A j \in 1..(k - 1) : ts[j].is_canonical # 1
  ELSE 0

\* index of the first transcript of maximal end - start among ts[1..n], 0 if
\* n = 0 (max_len starts at -1 and is replaced on length > max_len),
\* mane_utils.py:259-271
Longest(ts, n) ==
  IF n = 0 THEN 0
  ELSE CHOOSE k \in 1..n :
         /\ \A j \in 1..n : ts[j].end - ts[j].start <= ts[k].end - ts[k].start
         /\ \A j \in 1..(k - 1) : ts[j].end - ts[j].start < ts[k].end - ts[k].start

\* mane_utils.py:236-282
find_canonical_on_build(resp) ==
  IF resp.status # "ok" THEN NoId
  ELSE LET ts        == resp.transcripts
           canonical == FirstCanonical(ts)
           longest   == Longest(ts, IF canonical = 0 THEN Len(ts) ELSE canonical - 1)
           target    == IF canonical # 0 THEN canonical ELSE longest
       IN IF target # 0 THEN ts[target].id ELSE NoId

\* ------------------------------------------------- fetch_ensembl_exons
\* time.sleep(1) after HTTP 429, mane_utils.py:314-315
SleepAfter(status) == IF status = "rate_limited" THEN 1 ELSE 0

\* LoopEnds that also stops on a not-found or bad-request response
LoopEnds_ClientErrorTerminal(status, i) ==
  status \in {"ok", "not_found", "bad_request"} \/ i + 1 >= AttemptBudget

\* LoopEnds of a loop that allows one request more than the budget
LoopEnds_OneMore(status, i) == status = "ok" \/ i >= AttemptBudget

\* the retry loop ends on break (r.ok) or when range(2) is exhausted,
\* mane_utils.py:308-317
LoopEnds(status, i) == status = "ok" \/ i + 1 >= AttemptBudget

\* FallbackSymbol that hands the gene symbol on to the recursive call
FallbackSymbol_Kept(gene_symbol) == gene_symbol

\* the gene_symbol argument of the recursive call: gene_symbol=None,
\* mane_utils.py:324,341
FallbackSymbol(gene_symbol) == NoSymbol

\* EnterFetch of a call that starts with the record its caller had fetched
EnterFetch_KeepsData(id, gene_symbol) ==
  /\ call' = [transcript_id |-> id, gene_symbol |-> gene_symbol]
  /\ attempt' = 0
  /\ fetched_data' = fetched_data
  /\ round_log' = <<>>
  /\ slept' = <<>>

\* entry of fetch_ensembl_exons(transcript_id_version, build, gene_symbol),
\* mane_utils.py:296-305
EnterFetch(id, gene_symbol) ==
  /\ call' = [transcript_id |-> id, gene_symbol |-> gene_symbol]
  /\ attempt' = 0
  /\ fetched_data' = NoData
  /\ round_log' = <<>>
  /\ slept' = <<>>

\* one iteration of the retry loop, mane_utils.py:308-317
LookupRequest ==
  /\ pc = "lookup"
  /\ \E resp \in LookupResponses :
       /\ round_log' = Append(round_log, resp.status)
       /\ slept' = Append(slept, SleepAfter(resp.status))
       /\ fetched_data' = IF resp.status = "ok" THEN resp.data ELSE fetched_data
       /\ attempt' = attempt + 1
       /\ tally' = [tally EXCEPT !.direct = @ + 1]
       /\ pc' = IF LoopEnds(resp.status, attempt) THEN "after_lookup" ELSE "lookup"
  /\ UNCHANGED <<compileVars, appVars, call, toolVars>>

\* the model returned at mane_utils.py:343-369
BuildInfo(id, data) ==
  [transcript_id |-> id, strand |-> data.strand, exons |-> data.exons,
   cds_start |-> data.cds_start, cds_end |-> data.cds_end]

\* NeedsCanonical that tries the fallback after a failed lookup only
NeedsCanonical_FailedOnly(data, gene_symbol) ==
  data = NoData /\ gene_symbol # NoSymbol

\* the fallback is tried when the lookup failed or the record has no
\* Translation, and a gene symbol was given, mane_utils.py:320,334
NeedsCanonical(data, gene_symbol) ==
  (data = NoData \/ data.cds_start = None) /\ gene_symbol # NoSymbol

\* after the retry loop, mane_utils.py:319-369: the canonical lookup, then
\* either the recursive call (a tail call) or the return to the caller
AfterLookup ==
  /\ pc = "after_lookup"
  /\ \E resp \in IF NeedsCanonical(fetched_data, call.gene_symbol)
                 THEN SymbolResponses ELSE {NoSymbolResponse} :
       LET asks   == NeedsCanonical(fetched_data, call.gene_symbol)
           alt_id == IF asks THEN find_canonical_on_build(resp) ELSE NoId
       IN IF asks /\ alt_id # NoId /\ alt_id # call.transcript_id
          THEN /\ EnterFetch(alt_id, FallbackSymbol(call.gene_symbol))
               /\ tally' = [tally EXCEPT !.canonical = @ + 1, !.rounds = @ + 1,
                                         !.alt_id = alt_id,
                                         !.trigger = IF fetched_data = NoData
                                                     THEN "failed" ELSE "no_cds"]
               /\ pc' = "lookup"
               /\ UNCHANGED transcript_info
          ELSE /\ transcript_info' =
                    IF fetched_data = NoData THEN NoInfo
                    ELSE BuildInfo(call.transcript_id, fetched_data)
               /\ tally' = [tally EXCEPT !.canonical = IF asks THEN @ + 1 ELSE @,
                                         !.alt_id = IF asks THEN alt_id ELSE @]
               /\ pc' = "process"
               /\ call' = NoCall
               /\ attempt' = 0
               /\ fetched_data' = NoData
               /\ round_log' = <<>>
               /\ slept' = <<>>
  /\ UNCHANGED <<cfg, padding, records, bed_lines, appVars, toolVars>>

\* ------------------------------------------------- the generation loop
\* texts typed into the Exon Filter and Intron Filter columns
ExonFilterTexts ==
  {<<"a", "l", "l">>, <<"2">>, <<"1", ",", "9">>, <<"9">>, <<"x">>}
IntronFilterTexts ==
  {<<"a", "l", "l">>, <<"1">>, <<"9">>, <<"3", "-", "1">>}

NoCfg == [include_5utr |-> FALSE, include_3utr |-> FALSE, include_intron |-> FALSE,
          flank_5_prime |-> 0, flank_3_prime |-> 0,
          exon_filter |-> FilterAll, intron_filter |-> FilterAll]

\* keywords of the call at app.py:584-593 and parameters of the def at
\* mane_utils.py:371; a keyword that is no parameter raises TypeError
CallKeywords ==
  {"include_5utr", "include_3utr", "include_intron", "flank_5_prime", "flank_3_prime",
   "exon_filter", "intron_filter"}
SignatureParams ==
  {"transcript_info", "include_5utr", "include_3utr", "include_intron",
   "flank_5_prime", "flank_3_prime"}
KeywordsAccepted == CallKeywords \subseteq SignatureParams

\* the requested numbers outside 1..n, app.py:552,569
InvalidNumbers(f, n) == IF Truthy(f) THEN {e \in f.set : e < 1 \/ e > n} ELSE {}

\* the lines appended for one gene, app.py:595-606; column 8 is the number
\* found in the record name, "." (here 0) for the flanks
BedLines(gene, strand, rs, p) ==
  [k \in 1..Len(rs) |->
     [gene |-> gene, strand |-> strand, start |-> PadRecord(rs[k], p).start,
      end |-> PadRecord(rs[k], p).end, region |-> rs[k].region, part |-> rs[k].part,
      num |-> IF rs[k].region \in {"exon", "intron"} THEN rs[k].num ELSE 0]]

\* the loop moves on to the next row; the locals of the iteration are dead
EndIteration ==
  /\ pc' = "next_row"
  /\ row' = NoRow
  /\ cfg' = NoCfg
  /\ transcript_info' = NoInfo
  /\ records' = <<>>
  /\ tally' = NoTally

\* start of a loop iteration up to the call of fetch_ensembl_exons, app.py:488-521
StartRow ==
  /\ pc = "next_row"
  /\ gene_idx < MaxGenes
  /\ \E enst_req \in RequestedIds, exon_filter_raw \in ExonFilterTexts,
        intron_filter_raw \in IntronFilterTexts :
       LET gene              == gene_idx + 1
           exon_filter_set   == parse_exon_filter(Strip(exon_filter_raw))
           intron_filter_set == parse_exon_filter(Strip(intron_filter_raw))
       IN /\ gene_idx' = gene_idx + 1
          /\ IF exon_filter_set.kind = "error"
             THEN /\ report' = [report EXCEPT !.errors =
                                  Append(@, [Gene |-> gene, what |-> "invalid Exon Filter"])]
                  /\ pc' = "next_row"
                  /\ row' = NoRow
                  /\ UNCHANGED resolverVars
             ELSE IF intron_filter_set.kind = "error"
             THEN /\ report' = [report EXCEPT !.errors =
                                  Append(@, [Gene |-> gene, what |-> "invalid Intron Filter"])]
                  /\ pc' = "next_row"
                  /\ row' = NoRow
                  /\ UNCHANGED resolverVars
             ELSE /\ row' = [symbol |-> gene, Ensembl_nuc |-> enst_req,
                             exon_filter_set |-> exon_filter_set,
                             intron_filter_set |-> intron_filter_set]
                  /\ EnterFetch(StripVersion(enst_req), gene)
                  /\ tally' = [NoTally EXCEPT !.rounds = 1]
                  /\ pc' = "lookup"
                  /\ UNCHANGED report
  /\ UNCHANGED <<compileVars, exception, toolVars>>

\* the rest of the iteration, from the return of fetch_ensembl_exons,
\* app.py:523-612 (the row's flags and flank lengths are read here)
ProcessTranscript ==
  /\ pc = "process"
  /\ \E use_5utr \in BOOLEAN, use_3utr \in BOOLEAN, use_intron \in BOOLEAN,
        flank_5prime \in {0, MaxFlank}, flank_3prime \in {0, MaxFlank} :
       LET gene == row.symbol
           info == transcript_info
           is_switched == info.transcript_id # StripVersion(row.Ensembl_nuc)
           r1 == IF is_switched
                 THEN [report EXCEPT !.fallback_genes =
                         Append(@, [Gene |-> gene, Requested |-> row.Ensembl_nuc,
                                    Used |-> info.transcript_id])]
                 ELSE report
           r2 == IF info.cds_start = None
                 THEN [r1 EXCEPT !.no_cds_genes = Append(@, gene)]
                 ELSE r1
           n_exons == Len(info.exons)
           invalid_exons == InvalidNumbers(row.exon_filter_set, n_exons)
           r3 == IF invalid_exons # {}
                 THEN [r2 EXCEPT !.exon_filter_errors =
                         Append(@, [Gene |-> gene, Invalid |-> invalid_exons, of |-> "exons"])]
                 ELSE r2
           exon_filter_set == IF invalid_exons # {}
                              THEN FilterSet(row.exon_filter_set.set \ invalid_exons)
                              ELSE row.exon_filter_set
           gene_skipped == invalid_exons # {} /\ exon_filter_set.set = {}
           n_introns == Max(n_exons - 1, 0)
           invalid_introns == InvalidNumbers(row.intron_filter_set, n_introns)
           r4 == IF invalid_introns # {}
                 THEN [r3 EXCEPT !.exon_filter_errors =
                         Append(@, [Gene |-> gene, Invalid |-> invalid_introns, of |-> "introns"])]
                 ELSE r3
           intron_reduced == IF invalid_introns # {}
                             THEN FilterSet(row.intron_filter_set.set \ invalid_introns)
                             ELSE row.intron_filter_set
           introns_off == invalid_introns # {} /\ intron_reduced.set = {} /\ use_intron
           r5 == IF introns_off
                 THEN [r4 EXCEPT !.errors =
                         Append(@, [Gene |-> gene, what |-> "all requested introns out of range"])]
                 ELSE r4
           args == [include_5utr |-> use_5utr, include_3utr |-> use_3utr,
                    include_intron |-> IF introns_off THEN FALSE ELSE use_intron,
                    flank_5_prime |-> flank_5prime, flank_3_prime |-> flank_3prime,
                    exon_filter |-> exon_filter_set,
                    intron_filter |-> IF introns_off THEN FilterAll ELSE intron_reduced]
       IN IF info = NoInfo
          THEN /\ report' = [report EXCEPT !.errors =
                               Append(@, [Gene |-> gene, what |-> "failed to fetch transcript"])]
               /\ EndIteration
               /\ UNCHANGED <<bed_lines, exception>>
          ELSE IF gene_skipped
          THEN /\ report' = [r3 EXCEPT !.errors =
                               Append(@, [Gene |-> gene, what |-> "all requested exons out of range"])]
               /\ EndIteration
               /\ UNCHANGED <<bed_lines, exception>>
          ELSE /\ report' = r5
               /\ IF KeywordsAccepted
                  THEN /\ bed_lines' = bed_lines \o
                            BedLines(gene, info.strand,
                                     generate_bed_records(info, args.include_5utr,
                                        args.include_3utr, args.include_intron,
                                        args.flank_5_prime, args.flank_3_prime),
                                     padding)
                       /\ EndIteration
                       /\ UNCHANGED exception
                  ELSE /\ exception' = "TypeError"
                       /\ pc' = "crashed"
                       /\ cfg' = args
                       /\ UNCHANGED <<transcript_info, records, bed_lines, row, tally>>
  /\ UNCHANGED <<padding, gene_idx, call, attempt, fetched_data, round_log, slept, toolVars>>

\* the loop ends when the rows are exhausted; the report is rendered, app.py:614-653
Finish ==
  /\ pc = "next_row"
  /\ pc' = "done"
  /\ UNCHANGED <<compileVars, appVars, resolverVars, toolVars>>

Init ==
  /\ transcript_info = NoInfo
  /\ cfg = NoCfg
  /\ padding \in {0, MaxPad}
  /\ records = <<>>
  /\ bed_lines = <<>>
  /\ pc = "next_row"
  /\ IdleApp
  /\ IdleResolver
  /\ IdleTools

Next == StartRow \/ LookupRequest \/ AfterLookup \/ ProcessTranscript \/ Finish

Spec == Init /\ [][Next]_vars

\* the same run when every request is answered (requests carry a timeout)
\* and the interpreter goes on to the next statement
SpecLive == Spec /\ WF_vars(LookupRequest) /\ WF_vars(AfterLookup)

\* ------------------------------------------------- vocabulary of the claims
\* what the claims say, stated on 1-based inclusive bases, not on the code
RecordSet == {records[k] : k \in DOMAIN records}
ExonSet   == {transcript_info.exons[k] : k \in DOMAIN transcript_info.exons}

\* the 1-based bases a 0-based half-open interval covers
Bases(r) == (r.start + 1)..r.end
ExonBases(ex) == ex.start..ex.end

\* the records cut from exon ex (exons do not overlap)
ExonRecords(ex) == {r \in RecordSet : r.region = "exon" /\ Bases(r) \subseteq ExonBases(ex)}
ExonRecordCount(ex) ==
  Cardinality({k \in DOMAIN records : records[k] \in ExonRecords(ex)})

HasCds == transcript_info.cds_start # None
BelowCds(ex) == {b \in ExonBases(ex) : b < transcript_info.cds_start}
InCds(ex)    == {b \in ExonBases(ex) :
                   transcript_info.cds_start <= b /\ b <= transcript_info.cds_end}
AboveCds(ex) == {b \in ExonBases(ex) : b > transcript_info.cds_end}

LowerLabel == IF transcript_info.strand = 1 THEN "5UTR" ELSE "3UTR"
UpperLabel == IF transcript_info.strand = 1 THEN "3UTR" ELSE "5UTR"
UtrFlag(label) == IF label = "5UTR" THEN cfg.include_5utr ELSE cfg.include_3utr

\* 0-based position of an exon in ascending genomic order
GenomicPos(ex) == Cardinality({e \in ExonSet : e.start < ex.start})

Compiled == pc \in {"pad", "done"}

\* C1: every exon is split by its overlap with the CDS span: without CDS the
\* whole exon is one non-coding interval; otherwise the bases below the CDS
\* are 5'UTR (forward) / 3'UTR (reverse), the bases inside the CDS are CDS,
\* the bases above the CDS are 3'UTR (forward) / 5'UTR (reverse).
C1_ExonSplitByCds ==
  Compiled =>
    /\ \A r \in RecordSet : r.region = "exon" => \E ex \in ExonSet : r \in ExonRecords(ex)
    /\ \A ex \in ExonSet :
         IF ~HasCds
         THEN /\ ExonRecordCount(ex) = 1
              /\ \A r \in ExonRecords(ex) : Bases(r) = ExonBases(ex) /\ r.part = ""
         ELSE /\ \A r \in ExonRecords(ex) :
                   \/ r.part = LowerLabel /\ Bases(r) = BelowCds(ex)
                   \/ r.part = "CDS"      /\ Bases(r) = InCds(ex)
                   \/ r.part = UpperLabel /\ Bases(r) = AboveCds(ex)
              /\ (BelowCds(ex) # {} /\ UtrFlag(LowerLabel))
                   => \E r \in ExonRecords(ex) : r.part = LowerLabel
              /\ InCds(ex) # {} => \E r \in ExonRecords(ex) : r.part = "CDS"
              /\ (AboveCds(ex) # {} /\ UtrFlag(UpperLabel))
                   => \E r \in ExonRecords(ex) : r.part = UpperLabel

\* a reverse-strand exon with bases below, inside and above the CDS, all three emitted
C1_Witness ==
  /\ Compiled /\ HasCds /\ transcript_info.strand = -1
  /\ \E ex \in ExonSet :
       /\ BelowCds(ex) # {} /\ InCds(ex) # {} /\ AboveCds(ex) # {}
       /\ Cardinality(ExonRecords(ex)) = 3

\* C2: with N exons, the exon at 0-based genomic position i is numbered i+1
\* on the forward strand and N-i on the reverse strand.
C2_ExonNumbering ==
  Compiled =>
    \A ex \in ExonSet : \A r \in ExonRecords(ex) :
      r.num = IF transcript_info.strand = 1
              THEN GenomicPos(ex) + 1
              ELSE Cardinality(ExonSet) - GenomicPos(ex)

\* a reverse-strand transcript with the maximal number of exons, each emitted
C2_Witness ==
  /\ Compiled /\ transcript_info.strand = -1 /\ Cardinality(ExonSet) >= 3
  /\ \A ex \in ExonSet : ExonRecords(ex) # {}

\* C4: a 5'UTR piece is emitted only with include_5utr, a 3'UTR piece only
\* with include_3utr; every non-empty CDS piece is emitted whatever the flags.
C4_UtrFlagsGateOnlyUtr ==
  Compiled =>
    /\ \A r \in RecordSet : /\ r.part = "5UTR" => cfg.include_5utr
                            /\ r.part = "3UTR" => cfg.include_3utr
    /\ HasCds => \A ex \in ExonSet :
         InCds(ex) # {} =>
           \E r \in RecordSet : r.region = "exon" /\ r.part = "CDS" /\ Bases(r) = InCds(ex)

\* both flags off: an exon with bases on both sides of the CDS yields its CDS piece only
C4_Witness ==
  /\ Compiled /\ HasCds /\ ~cfg.include_5utr /\ ~cfg.include_3utr
  /\ \E ex \in ExonSet :
       /\ BelowCds(ex) # {} /\ InCds(ex) # {} /\ AboveCds(ex) # {}
       /\ \A r \in ExonRecords(ex) : r.part = "CDS"
       /\ ExonRecords(ex) # {}

SetMin(S) == CHOOSE x \in S : \A y \in S : x <= y
SetMax(S) == CHOOSE x \in S : \A y \in S : x >= y
LowestStart == SetMin({e.start : e \in ExonSet})
HighestEnd  == SetMax({e.end : e \in ExonSet})

\* b is the exon that follows a in ascending genomic order
NextExon(a, b) ==
  /\ a.start < b.start
  /\ ~\E e \in ExonSet : a.start < e.start /\ e.start < b.start

Span1(region, part, B) == {[region |-> region, part |-> part, s |-> SetMin(BB), e |-> SetMax(BB)]
                           : BB \in {B} \ {{}}}

\* the regions of the transcript as 1-based inclusive spans [s, e]
ExonPieceSpans ==
  UNION {IF ~HasCds
         THEN Span1("exon", "", ExonBases(ex))
         ELSE (IF UtrFlag(LowerLabel) THEN Span1("exon", LowerLabel, BelowCds(ex)) ELSE {})
              \cup Span1("exon", "CDS", InCds(ex))
              \cup (IF UtrFlag(UpperLabel) THEN Span1("exon", UpperLabel, AboveCds(ex)) ELSE {})
         : ex \in ExonSet}

IntronSpans ==
  IF cfg.include_intron
  THEN UNION {UNION {IF NextExon(a, b)
                     THEN Span1("intron", "", (a.end + 1)..(b.start - 1))
                     ELSE {}
                     : b \in ExonSet} : a \in ExonSet}
  ELSE {}

BelowTranscript(len) == {b \in 1..(LowestStart - 1) : b >= LowestStart - len}
AboveTranscript(len) == (HighestEnd + 1)..(HighestEnd + len)

BelowOrAbove5 ==
  IF transcript_info.strand = 1 THEN BelowTranscript(cfg.flank_5_prime)
                                ELSE AboveTranscript(cfg.flank_5_prime)
BelowOrAbove3 ==
  IF transcript_info.strand = 1 THEN AboveTranscript(cfg.flank_3_prime)
                                ELSE BelowTranscript(cfg.flank_3_prime)

FlankSpans ==
  Span1("promoter_5prime", "", BelowOrAbove5)
  \cup Span1("downstream_3prime", "", BelowOrAbove3)

InternalSpans == ExonPieceSpans \cup IntronSpans \cup FlankSpans

\* C8: every region, computed as a 1-based inclusive span [s, e] (exon pieces,
\* introns [exon_end+1, next_exon_start-1], flanks), is emitted before padding
\* as the 0-based half-open interval (s-1, e), of length e-s+1.
C8_ZeroBasedHalfOpen ==
  Compiled =>
    /\ {[region |-> r.region, part |-> r.part, start |-> r.start, end |-> r.end]
          : r \in RecordSet}
       = {[region |-> sp.region, part |-> sp.part, start |-> sp.s - 1, end |-> sp.e]
          : sp \in InternalSpans}
    /\ \A sp \in InternalSpans : \E r \in RecordSet :
         /\ r.region = sp.region /\ r.part = sp.part
         /\ r.start = sp.s - 1 /\ r.end = sp.e
         /\ r.end - r.start = sp.e - sp.s + 1

\* an exon piece, an intron and both flanks are emitted by one compile call
C8_Witness ==
  /\ Compiled
  /\ \E r \in RecordSet : r.region = "exon" /\ r.part = "CDS"
  /\ \E r \in RecordSet : r.region = "intron"
  /\ \E r \in RecordSet : r.region = "promoter_5prime"
  /\ \E r \in RecordSet : r.region = "downstream_3prime"

\* C9: every interval the compiler emits has end > start; regions that would
\* be empty (adjacent exons, a flank at the chromosome start, an exon without
\* UTR bases) are dropped.
C9_NoEmptyInterval ==
  Compiled => \A k \in DOMAIN records : records[k].end > records[k].start

\* adjacent exons with introns enabled, a promoter flank at the chromosome
\* start and an exon lying wholly inside the CDS with both UTR flags set
C9_Witness ==
  /\ Compiled /\ HasCds
  /\ cfg.include_intron /\ cfg.include_5utr /\ cfg.include_3utr
  /\ \E a, b \in ExonSet : NextExon(a, b) /\ a.end + 1 = b.start
  /\ transcript_info.strand = 1 /\ cfg.flank_5_prime > 0 /\ LowestStart = 1
  /\ \E ex \in ExonSet : InCds(ex) = ExonBases(ex)
  /\ ~\E r \in RecordSet : r.region \in {"intron", "promoter_5prime"}

\* C7: every output line has start = max(0, pre_pad_start - p) and
\* end = pre_pad_end + p; the upper bound is never clamped.
C7_Padding ==
  pc = "done" =>
    /\ Len(bed_lines) = Len(records)
    /\ \A k \in DOMAIN records :
         /\ bed_lines[k].start =
              (IF records[k].start - padding < 0 THEN 0 ELSE records[k].start - padding)
         /\ bed_lines[k].end = records[k].end + padding
         /\ bed_lines[k].region = records[k].region

\* padding > 0 applied to an exon piece, an intron and a flank, one of them
\* clamped at 0 and one of them not
C7_Witness ==
  /\ pc = "done" /\ padding > 0
  /\ \E k \in DOMAIN records : records[k].start - padding < 0 /\ bed_lines[k].start = 0
  /\ \E k \in DOMAIN records : records[k].start - padding > 0
  /\ \E k \in DOMAIN records : records[k].region = "exon"
  /\ \E k \in DOMAIN records : records[k].region = "intron"
  /\ \E k \in DOMAIN records : records[k].region = "downstream_3prime"

\* ------------------------------------------------- the generation run
Range(q) == {q[k] : k \in DOMAIN q}

\* the compile call of the current gene has been made with arguments cfg
CallMade == transcript_info # NoInfo /\ pc # "process"

\* what the compiler's code computes for the arguments of the call
CompilerRecords ==
  generate_bed_records(transcript_info, cfg.include_5utr, cfg.include_3utr,
                       cfg.include_intron, cfg.flank_5_prime, cfg.flank_3_prime)

GeneLines(region) ==
  {l \in Range(bed_lines) : l.gene = row.symbol /\ l.region = region}

LinesOf(rs) == Range(BedLines(row.symbol, transcript_info.strand, rs, padding))

IsSelectedExonRecord(r) == r.region = "exon" /\ r.num \in cfg.exon_filter.set

\* C3 (as stated): with an exon-selection set other than ALL the compile call
\* yields, of the exon-derived intervals, exactly those of the exons whose
\* transcript-order number is in the set (filter {2}: only the interval(s)
\* derived from exon 2 appear).
C3_ExonFilterAsStated ==
  (CallMade /\ Truthy(cfg.exon_filter)) =>
    GeneLines("exon") = LinesOf(SelectSeq(CompilerRecords, IsSelectedExonRecord))

IsSelectedIntronRecord(r) ==
  /\ r.region = "intron"
  /\ cfg.intron_filter.kind = "set" => r.num \in cfg.intron_filter.set
  /\ Truthy(cfg.exon_filter) => {r.num, r.num + 1} \subseteq cfg.exon_filter.set

\* C5 (as stated): intron intervals are emitted only when introns are
\* enabled; the emitted introns are the single intervals between consecutive
\* exons whose number is in the intron-selection set and, under an exon
\* filter, whose two flanking exons are in the exon-selection set.
C5_IntronFilterAsStated ==
  CallMade =>
    GeneLines("intron") =
      IF cfg.include_intron
      THEN LinesOf(SelectSeq(CompilerRecords, IsSelectedIntronRecord))
      ELSE {}

\* C6 (as stated): for a resolved gene the promoter flank is emitted whenever
\* flank_5_prime > 0 and the downstream flank whenever flank_3_prime > 0
\* (unless the clamped span is empty), whatever the filters.
C6_FlanksAsStated ==
  CallMade =>
    /\ (cfg.flank_5_prime > 0 /\ BelowOrAbove5 # {}) => GeneLines("promoter_5prime") # {}
    /\ (cfg.flank_3_prime > 0 /\ BelowOrAbove3 # {}) => GeneLines("downstream_3prime") # {}

\* C10 (as stated): a not-found or bad-request response is the last request of
\* the lookup of an id; rate-limited and server-error responses are retried
\* until the attempt budget is used up, with increasing backoff.
C10_ClientErrorTerminalAsStated ==
  /\ \A k \in 1..(Len(round_log) - 1) : round_log[k] \notin {"not_found", "bad_request"}
  /\ (pc = "after_lookup" /\ round_log[Len(round_log)] \in {"rate_limited", "server_error"})
       => Len(round_log) = AttemptBudget
  /\ \A j \in 1..Len(slept) : \A k \in (j + 1)..Len(slept) :
       round_log[j] \in {"rate_limited", "server_error"} => slept[j] < slept[k]

\* C10 (amended): every unsuccessful outcome is followed by another request
\* until the budget of AttemptBudget requests is used up; only a successful
\* response ends the lookup earlier; the wait is one second after a
\* rate-limited response and none otherwise.
C10_EveryFailureRetried ==
  /\ Len(round_log) <= AttemptBudget
  /\ Len(slept) = Len(round_log)
  /\ \A k \in 1..(Len(round_log) - 1) : round_log[k] # "ok"
  /\ pc = "lookup" => \A k \in 1..Len(round_log) : round_log[k] # "ok"
  /\ pc = "after_lookup" =>
       /\ Len(round_log) >= 1
       /\ round_log[Len(round_log)] = "ok" \/ Len(round_log) = AttemptBudget
  /\ \A k \in 1..Len(round_log) :
       slept[k] = IF round_log[k] = "rate_limited" THEN 1 ELSE 0

\* a not-found response was followed by a second request, which succeeded
C10_Witness ==
  /\ pc = "after_lookup"
  /\ round_log = <<"not_found", "ok">>
  /\ slept = <<0, 0>>
  /\ fetched_data # NoData

\* ------------------------------------------------- the fallback chain
\* the step that leaves the retry loop of the running call
LeavesLoop == pc = "after_lookup" /\ pc' # "after_lookup"

\* the step looks up the canonical transcript and, if that yields an id other
\* than the one just tried, starts a direct lookup of it without gene symbol
CanonicalFallbackStep ==
  /\ tally'.canonical = tally.canonical + 1
  /\ IF tally'.alt_id # NoId /\ tally'.alt_id # call.transcript_id
     THEN /\ pc' = "lookup"
          /\ call' = [transcript_id |-> tally'.alt_id, gene_symbol |-> NoSymbol]
          /\ attempt' = 0 /\ round_log' = <<>> /\ fetched_data' = NoData
          /\ tally'.rounds = tally.rounds + 1
     ELSE pc' = "process"

\* C11 (as stated): when the direct lookup of the requested id never
\* succeeded and a gene symbol is available, the resolver looks up the
\* canonical transcript of the symbol and performs a direct lookup of the id
\* found, with no gene symbol.
C11_StepAsStated ==
  (LeavesLoop /\ fetched_data = NoData /\ call.gene_symbol # NoSymbol) =>
    /\ tally'.canonical = tally.canonical + 1
    /\ tally'.alt_id # NoId =>
         /\ pc' = "lookup"
         /\ call' = [transcript_id |-> tally'.alt_id, gene_symbol |-> NoSymbol]

\* C11 (as stated), as a property of every step: a failed direct lookup with
\* a gene symbol is followed by a direct lookup of the canonical id found
C11_FallbackAsStated == [][C11_StepAsStated]_vars

\* C11 (amended): when the direct lookup of the requested id never succeeded
\* and a gene symbol is available, the resolver looks up the canonical
\* transcript of the symbol and, only when that yields an id other than the
\* one just tried, starts a direct lookup of that id with no gene symbol
\* (otherwise it returns not-found at once); a call without gene symbol whose
\* lookup never succeeded returns not-found without any canonical lookup, so
\* a gene is resolved in at most two direct lookups.
C11_Step ==
  (LeavesLoop /\ fetched_data = NoData) =>
    /\ IF call.gene_symbol # NoSymbol
       THEN /\ CanonicalFallbackStep
            /\ pc' = "process" => transcript_info' = NoInfo
       ELSE /\ pc' = "process" /\ transcript_info' = NoInfo
            /\ tally'.canonical = tally.canonical /\ tally'.rounds = tally.rounds
    /\ tally'.rounds <= 2 /\ tally'.canonical <= 1
    /\ tally.rounds = 2 => call.gene_symbol = NoSymbol

\* C11 (amended), as a property of every step: the canonical id is looked up
\* directly, without gene symbol, only when it differs from the id just tried
C11_FallbackWithoutSymbol == [][C11_Step]_vars

\* the requested id never resolved, the canonical id was looked up directly
\* without gene symbol, that lookup failed too and nothing further was tried
C11_Witness ==
  /\ pc = "process" /\ transcript_info = NoInfo
  /\ tally.trigger = "failed" /\ tally.rounds = 2 /\ tally.canonical = 1
  /\ tally.direct = 2 * AttemptBudget
  /\ tally.alt_id # StripVersion(row.Ensembl_nuc)

\* C12: when the direct lookup succeeded but the record has no CDS boundaries
\* and a gene symbol is available, the same canonical fallback is performed
\* as after a failed lookup; a model without CDS is returned only from a call
\* without gene symbol (the canonical transcript itself has no CDS) or when
\* the canonical lookup yields no id other than the one just tried.
C12_Step ==
  /\ (LeavesLoop /\ fetched_data # NoData /\ fetched_data.cds_start = None
        /\ call.gene_symbol # NoSymbol)
       => /\ CanonicalFallbackStep
          /\ pc' = "process" => transcript_info' = BuildInfo(call.transcript_id, fetched_data)
  /\ (LeavesLoop /\ pc' = "process" /\ transcript_info' # NoInfo
        /\ transcript_info'.cds_start = None)
       => \/ call.gene_symbol = NoSymbol
          \/ tally'.alt_id \in {NoId, call.transcript_id}

\* C12, as a property of every step: a record without CDS triggers the same
\* canonical fallback as a failed lookup
C12_NoCdsFallback == [][C12_Step]_vars

\* the requested id resolved to a record without CDS, and the canonical
\* transcript, looked up without gene symbol, was returned with its CDS
C12_Witness ==
  /\ pc = "process" /\ transcript_info # NoInfo
  /\ tally.trigger = "no_cds" /\ tally.rounds = 2 /\ tally.canonical = 1
  /\ transcript_info.cds_start # None
  /\ transcript_info.transcript_id = tally.alt_id
  /\ tally.alt_id # StripVersion(row.Ensembl_nuc)

\* ------------------------------------------------- failures of one gene
\* genes for which the run reported that no transcript could be fetched
NotFoundGenes ==
  {e.Gene : e \in {x \in Range(report.errors) : x.what = "failed to fetch transcript"}}

\* genes of the batch rejected or skipped with an error notice
ReportedGenes == {e.Gene : e \in Range(report.errors)}

GenesWithLines == {l.gene : l \in Range(bed_lines)}

\* C13 (as stated): a gene for which no resolver step yields a usable model is
\* reported not-found and contributes no output lines, every other gene of the
\* batch is still resolved and compiled, and the batch returns its output
\* together with the collected diagnostics.
C13_NotFoundIsLocalAsStated ==
  NotFoundGenes # {} =>
    /\ NotFoundGenes \cap GenesWithLines = {}
    /\ exception = "none"
    /\ pc = "done" =>
         \A g \in 1..gene_idx :
           (g \notin ReportedGenes) => g \in GenesWithLines

\* the row of the current compile call names an exon or intron number beyond
\* the transcript's count
OutOfRangeRequested ==
  /\ CallMade
  /\ \/ InvalidNumbers(row.exon_filter_set, Len(transcript_info.exons)) # {}
     \/ InvalidNumbers(row.intron_filter_set,
                       Max(Len(transcript_info.exons) - 1, 0)) # {}

\* C15 (as stated): the invalid numbers are dropped and the valid ones are
\* still applied (the gene's exon and intron lines are those of the remaining
\* numbers); a class whose numbers are all invalid is skipped with a notice;
\* the batch continues.
C15_OutOfRangeAsStated ==
  OutOfRangeRequested =>
    /\ exception = "none"
    /\ Truthy(cfg.exon_filter) =>
         /\ cfg.exon_filter.set =
              row.exon_filter_set.set
                \ InvalidNumbers(row.exon_filter_set, Len(transcript_info.exons))
         /\ \A n \in cfg.exon_filter.set :
              \E l \in GeneLines("exon") : l.num = n
    /\ \A l \in GeneLines("intron") :
         cfg.intron_filter.kind = "set" => l.num \in cfg.intron_filter.set

\* ------------------------------------------------- initial transcript selection
MaxRows == 3       \* the MANE summary table has at most MaxRows rows

Symbols == {"BRCA1", "TP53", "GENEX"}
ManeIds == <<"ENST001", "ENST002", "ENST003", "ENST004", "ENST005", "ENST006">>

\* the MANE summary table: row k carries the transcript id ManeIds[k]
ManeTables ==
  UNION {{[k \in 1..n |-> [symbol |-> f[k].symbol, MANE_status |-> f[k].MANE_status,
                            Ensembl_nuc |-> ManeIds[k]]]
          : f \in [1..n -> [symbol : Symbols,
                            MANE_status : {"MANE Select", "MANE Plus Clinical"}]]}
         : n \in 0..MaxRows}

\* what the service answers for a symbol: nothing, the gene record of the
\* symbol with a flagged canonical transcript, or a gene record found through
\* an alias, without canonical flag (its second transcript is the longer one)
NoGene == [display_name |-> "none", Transcript |-> <<>>]
GeneAnswers(g) ==
  {NoGene,
   [display_name |-> g,
    Transcript |-> <<[id |-> "T1", is_canonical |-> 0, start |-> 1, end |-> 3],
                     [id |-> "T2", is_canonical |-> 1, start |-> 1, end |-> 2]>>],
   [display_name |-> "BRCA1",
    Transcript |-> <<[id |-> "T1", is_canonical |-> 0, start |-> 1, end |-> 2],
                     [id |-> "T3", is_canonical |-> 0, start |-> 1, end |-> 3]>>]}

\* StatusRank that ranks MANE Plus Clinical first
StatusRank_PlusFirst(status) == IF status = "MANE Select" THEN 2 ELSE 1

\* code of a status in the ordered categorical, mane_utils.py:104
StatusRank(status) == IF status = "MANE Select" THEN 1 ELSE 2

\* rows of the table whose symbol is requested, mane_utils.py:97-101
Hits(gene_list, df) == {k \in 1..Len(df) : df[k].symbol \in gene_list}

\* the rows of symbol g that can come first after sort_values('MANE_status'):
\* those of the lowest status code (the sort is not stable), mane_utils.py:105
FirstAfterSort(df, hits, g) ==
  {k \in hits : /\ df[k].symbol = g
                /\ \A j \in hits : df[j].symbol = g =>
                     StatusRank(df[k].MANE_status) <= StatusRank(df[j].MANE_status)}

\* mane_utils.py:88-112; pick[g] is the row of g that the sort puts first
get_mane_transcripts(gene_list, df, pick) ==
  {[original_input |-> df[pick[g]].symbol, symbol |-> df[pick[g]].symbol,
    Ensembl_nuc |-> df[pick[g]].Ensembl_nuc, MANE_status |-> df[pick[g]].MANE_status]
   : g \in DOMAIN pick}

\* index of the canonical transcript of a gene record: the first flagged
\* one, else the first one, 0 if there is none, mane_utils.py:195-206
CanonicalTranscript(ts) ==
  IF FirstCanonical(ts) # 0 THEN FirstCanonical(ts)
  ELSE IF ts # <<>> THEN 1 ELSE 0

\* mane_utils.py:114-225; answers[g] is what the lookups yield for g
get_ensembl_canonical(gene_list, answers) ==
  {[original_input |-> g, symbol |-> answers[g].display_name,
    Ensembl_nuc |-> answers[g].Transcript[CanonicalTranscript(answers[g].Transcript)].id,
    MANE_status |-> "Ensembl Canonical"]
   : g \in {h \in gene_list : /\ answers[h] # NoGene
                              /\ CanonicalTranscript(answers[h].Transcript) # 0}}

InitSelect ==
  /\ mane_df \in ManeTables
  /\ genes \in (SUBSET Symbols) \ {{}}
  /\ ensembl \in {a \in [Symbols -> UNION {GeneAnswers(g) : g \in Symbols}] :
                    \A g \in Symbols : a[g] \in GeneAnswers(g)}
  /\ mapped_df = {}
  /\ pc = "select"
  /\ IdleCompile
  /\ IdleApp
  /\ IdleResolver
  /\ IdleParser
  /\ IdleLift
  /\ IdleCache

\* MANE mapping with canonical fallback, app.py:296-307
MapGenes ==
  /\ pc = "select"
  /\ LET hits  == Hits(genes, mane_df)
         found == {mane_df[k].symbol : k \in hits}
     IN \E pick \in [found -> 1..Max(Len(mane_df), 1)] :
          /\ \A g \in found : pick[g] \in FirstAfterSort(mane_df, hits, g)
          /\ LET mane_rows     == get_mane_transcripts(genes, mane_df, pick)
                 found_symbols == {r.symbol : r \in mane_rows}
                 missing_genes == genes \ found_symbols
             IN mapped_df' = mane_rows \cup get_ensembl_canonical(missing_genes, ensembl)
  /\ pc' = "selected"
  /\ UNCHANGED <<compileVars, appVars, resolverVars, mane_df, genes, ensembl, parserVars,
                 liftVars, bedVars, cacheVars>>

NextSelect == MapGenes

SpecSelect == InitSelect /\ [][NextSelect]_vars

\* the rows of the MANE table for symbol g with the given status
ManeEntries(g, status) ==
  {k \in 1..Len(mane_df) : mane_df[k].symbol = g /\ mane_df[k].MANE_status = status}

RowsFor(g) == {r \in mapped_df : r.original_input = g}

\* C14: the selection holds exactly one row per requested symbol that is known
\* anywhere: its MANE Select entry if it has one, else a MANE Plus Clinical
\* entry if it has one, else the service's canonical transcript; a symbol
\* absent from the MANE table and from the service has no row.
C14_SelectionPriority ==
  pc = "selected" =>
    /\ \A r \in mapped_df : r.original_input \in genes
    /\ \A g \in genes :
         LET select == ManeEntries(g, "MANE Select")
             plus   == ManeEntries(g, "MANE Plus Clinical")
         IN /\ Cardinality(RowsFor(g)) <= 1
            /\ select # {} =>
                 \E r \in RowsFor(g), k \in select :
                   r.MANE_status = "MANE Select" /\ r.Ensembl_nuc = mane_df[k].Ensembl_nuc
            /\ (select = {} /\ plus # {}) =>
                 \E r \in RowsFor(g), k \in plus :
                   /\ r.MANE_status = "MANE Plus Clinical"
                   /\ r.Ensembl_nuc = mane_df[k].Ensembl_nuc
            /\ (select = {} /\ plus = {}) =>
                 IF ensembl[g] = NoGene
                 THEN RowsFor(g) = {}
                 ELSE \E r \in RowsFor(g) :
                        /\ r.MANE_status = "Ensembl Canonical"
                        /\ \E k \in DOMAIN ensembl[g].Transcript :
                             r.Ensembl_nuc = ensembl[g].Transcript[k].id

\* one symbol with both MANE entries (the Plus Clinical row first), one with a
\* Plus Clinical entry only, one without MANE entry that the service knows
C14_Witness ==
  /\ pc = "selected"
  /\ genes = Symbols
  /\ Len(mane_df) = 3
  /\ mane_df[1].symbol = mane_df[2].symbol /\ mane_df[1].symbol # mane_df[3].symbol
  /\ mane_df[1].MANE_status = "MANE Plus Clinical"
  /\ mane_df[2].MANE_status = "MANE Select"
  /\ mane_df[3].MANE_status = "MANE Plus Clinical"
  /\ Cardinality(mapped_df) = 3
  /\ \E r \in mapped_df : r.MANE_status = "Ensembl Canonical"

\* ------------------------------------------------- the filter parser applied
MaxLen == 4        \* enumerated filter texts have at most MaxLen characters

Alphabet == {"1", "2", ",", "-", " ", "a", "l", "n", "A", "x"}

\* the texts of the documentation, app.py:16-21,40 and the filter column help
ExampleTexts ==
  {<<"1", ",", "3", ",", "5", "-", "7">>, <<"1", "-", "3", ",", "7">>,
   <<"1", ",", "3", ",", "5">>, <<"A", "L", "L">>, <<"5", "-", "9">>,
   <<"1", "0", "-", "1", "2">>, <<"1", "-", "2", "-", "3">>}

FilterValues ==
  UNION {[1..n -> Alphabet] : n \in 0..MaxLen} \cup ExampleTexts \cup {Missing}

InitParse ==
  /\ filter_text \in FilterValues
  /\ filter_result = [kind |-> "none", set |-> {}, token |-> <<>>]
  /\ pc = "parse"
  /\ IdleCompile
  /\ IdleApp
  /\ IdleResolver
  /\ IdleSelect
  /\ IdleLift
  /\ IdleCache

\* app.py:507,514: the call of parse_exon_filter and its outcome
ParseStep ==
  /\ pc = "parse"
  /\ filter_result' = parse_exon_filter(filter_text)
  /\ pc' = "parsed"
  /\ UNCHANGED <<compileVars, appVars, resolverVars, selectVars, filter_text,
                 liftVars, bedVars, cacheVars>>

NextParse == ParseStep

SpecParse == InitParse /\ [][NextParse]_vars

\* the grammar of the filter text, as the specification words it
IsBareInt(tok) == IsDigitStr(tok)
DashAt(tok) ==
  {k \in 2..(Len(tok) - 1) :
     /\ tok[k] = "-"
     /\ IsDigitStr(SubSeq(tok, 1, k - 1))
     /\ IsDigitStr(SubSeq(tok, k + 1, Len(tok)))}
IsRangeTok(tok) == DashAt(tok) # {}
RangeLo(tok) == ToInt(SubSeq(tok, 1, (CHOOSE k \in DashAt(tok) : TRUE) - 1))
RangeHi(tok) == ToInt(SubSeq(tok, (CHOOSE k \in DashAt(tok) : TRUE) + 1, Len(tok)))
TokenOk(tok) == IsBareInt(tok) \/ (IsRangeTok(tok) /\ RangeLo(tok) <= RangeHi(tok))
TokenSet(tok) == IF IsBareInt(tok) THEN {ToInt(tok)} ELSE RangeLo(tok)..RangeHi(tok)

\* the outcome res is the one the grammar gives for value v, when the words
\* in all_words mean ALL and toks are the comma-separated tokens of v
ParsedAs(v, res, all_words, toks) ==
  IF v = Missing \/ Lower(Strip(v)) \in all_words
  THEN res = FilterAll
  ELSE IF \A k \in 1..Len(toks) : TokenOk(toks[k])
  THEN res = FilterSet(UNION {TokenSet(toks[k]) : k \in 1..Len(toks)})
  ELSE /\ res.kind = "error"
       /\ \E k \in 1..Len(toks) :
            /\ ~TokenOk(toks[k])
            /\ \A j \in 1..(k - 1) : TokenOk(toks[j])
            /\ res.token = RemoveSpaces(toks[k])

StripEach(toks) == [k \in 1..Len(toks) |-> Strip(toks[k])]

\* C16 (as stated): ALL for a missing value, a blank string or 'all' in any
\* letter case; for any other text the set of integers named by its
\* comma-separated tokens (bare integers, lo-hi ranges with lo <= hi); a syntax
\* error naming the offending token for any other token or lo > hi.  Blanks
\* around the text and around a token are taken as insignificant.
C16_ParserAsStated ==
  pc = "parsed" =>
    ParsedAs(filter_text, filter_result, {<<>>, <<"a", "l", "l">>},
             StripEach(Split(Strip(filter_text), ",")))

\* C16 (amended): as stated, except that every blank of the text is removed
\* before it is split on commas (so "1 2" names 12) and that the text 'nan',
\* in any letter case, also means ALL.
C16_ParserGrammar ==
  pc = "parsed" =>
    ParsedAs(filter_text, filter_result,
             {<<>>, <<"a", "l", "l">>, <<"n", "a", "n">>},
             Split(RemoveSpaces(filter_text), ","))

\* the documented example '1,3,5-7' has been parsed to {1,3,5,6,7}
C16_Witness ==
  /\ pc = "parsed"
  /\ filter_text = <<"1", ",", "3", ",", "5", "-", "7">>
  /\ filter_result = FilterSet({1, 3, 5, 6, 7})

\* ------------------------------------------------- liftover of one region
MaxPos == 2        \* positions lie in 1..MaxPos

\* a chromosome name is a text in pieces: <<"chr", "1">> or <<"1">>
TargetChroms == {<<"chr", "1">>, <<"chr", "2">>}

\* what lo.convert_coordinate returns: nothing (None or an empty list), or a
\* list whose first entry is (chrom, pos, ...)
NoHit   == [chrom |-> <<>>, pos |-> 0]
Answers == {NoHit} \cup [chrom : TargetChroms, pos : 1..MaxPos]

\* build names as callers pass them, and str.lower() on them
BuildNames == {"hg19", "GRCh37", "hg38", "HG38", "grch38", "T2T", "hs1"}
LowerBuild(b) ==
  CASE b = "GRCh37" -> "grch37"
    [] b = "HG38"   -> "hg38"
    [] b = "T2T"    -> "t2t"
    [] OTHER        -> b

\* keys of _lo_cache, liftover_utils.py:15
Hg19ToHg38Key == "hg19->hg38"
Hg38ToT2TKey  == "hg38ToHs1.over.chain.gz"
ChainKeys     == {Hg19ToHg38Key, Hg38ToT2TKey}

\* liftover_utils.py:113-114
AddChrPrefix(chrom) ==
  IF chrom # <<>> /\ Head(chrom) = "chr" THEN chrom ELSE <<"chr">> \o chrom

\* what liftover_single_region returns or raises: None (which carries no
\* reason), ValueError with its message, or the tuple (chrom, start, end)
NoneResult ==
  [kind |-> "None", chrom |-> <<>>, start |-> 0, end |-> 0, reason |-> ""]
ValueErrorRaised ==
  [kind |-> "ValueError", chrom |-> <<>>, start |-> 0, end |-> 0,
   reason |-> "Unsupported liftover"]
Region(c, s, e) ==
  [kind |-> "region", chrom |-> c, start |-> s, end |-> e, reason |-> ""]

\* convert_region that keeps the order of the mapped positions
convert_region_NoSwap(sl, el) ==
  IF sl = NoHit \/ el = NoHit THEN NoneResult
  ELSE IF sl.chrom # el.chrom THEN NoneResult
  ELSE Region(sl.chrom, sl.pos, el.pos)

\* _convert_region, given the answers for start and end, liftover_utils.py:136-149
convert_region(sl, el) ==
  IF sl = NoHit \/ el = NoHit THEN NoneResult
  ELSE IF sl.chrom # el.chrom THEN NoneResult
  ELSE IF sl.pos > el.pos THEN Region(sl.chrom, el.pos, sl.pos)
  ELSE Region(sl.chrom, sl.pos, el.pos)

\* the two convert_coordinate calls of one conversion with the chain `key`;
\* m gives the chain's answer for each position asked
Query(key, chrom, pos, answer) ==
  [key |-> key, chrom |-> chrom, pos |-> pos, answer |-> answer]
RegionQueries(key, chrom, start, end, m) ==
  <<Query(key, chrom, start, m[start]), Query(key, chrom, end, m[end])>>

IsHg38(b) == b \in {"hg38", "grch38"}
IsHg19(b) == b \in {"hg19", "grch37"}
IsT2T(b)  == b \in {"t2t", "hs1", "chm13"}

\* IsSameBuild that never holds
IsSameBuild_Never(from_build, to_build) == FALSE

\* from_build == to_build, liftover_utils.py:109
IsSameBuild(from_build, to_build) == from_build = to_build

\* HasTwoStep that never holds
HasTwoStep_Never(from_build, to_build) == FALSE

\* the pair converted in two steps via hg38, liftover_utils.py:124
HasTwoStep(from_build, to_build) == IsHg19(from_build) /\ IsT2T(to_build)

\* the pairs converted with one chain and the key of the chain,
\* liftover_utils.py:116-122
DirectKey(from_build, to_build) ==
  IF IsHg38(from_build) /\ IsT2T(to_build) THEN Hg38ToT2TKey
  ELSE IF IsHg19(from_build) /\ IsHg38(to_build) THEN Hg19ToHg38Key
  ELSE "none"

LiftRequests ==
  {r \in [chrom : {<<"1">>, <<"chr", "1">>}, start : 1..MaxPos, end : 1..MaxPos,
          from_build : BuildNames, to_build : BuildNames] : r.start <= r.end}

\* liftover_single_region, liftover_utils.py:95-133
LiftRegion ==
  /\ pc = "lift_region"
  /\ LET from_build == LowerBuild(lift_request.from_build)
         to_build   == LowerBuild(lift_request.to_build)
         chrom      == AddChrPrefix(lift_request.chrom)
         start      == lift_request.start
         end        == lift_request.end
     IN IF IsSameBuild(from_build, to_build)
        THEN /\ lift_result' = Region(lift_request.chrom, start, end)
             /\ UNCHANGED <<lo_cache, lookups>>
        ELSE IF DirectKey(from_build, to_build) # "none"
        THEN \E m \in [{start, end} -> Answers] :
               /\ lo_cache' = lo_cache \cup {DirectKey(from_build, to_build)}
               /\ lookups' = RegionQueries(DirectKey(from_build, to_build),
                                           chrom, start, end, m)
               /\ lift_result' = convert_region(m[start], m[end])
        ELSE IF HasTwoStep(from_build, to_build)
        THEN \E m1 \in [{start, end} -> Answers] :
               LET mid == convert_region(m1[start], m1[end])
                   q1  == RegionQueries(Hg19ToHg38Key, chrom, start, end, m1)
               IN IF mid = NoneResult
                  THEN /\ lo_cache' = lo_cache \cup {Hg19ToHg38Key}
                       /\ lookups' = q1
                       /\ lift_result' = NoneResult
                  ELSE \E m2 \in [{mid.start, mid.end} -> Answers] :
                         /\ lo_cache' = lo_cache \cup {Hg19ToHg38Key, Hg38ToT2TKey}
                         /\ lookups' = q1 \o RegionQueries(Hg38ToT2TKey, mid.chrom,
                                                           mid.start, mid.end, m2)
                         /\ lift_result' = convert_region(m2[mid.start], m2[mid.end])
        ELSE /\ lift_result' = ValueErrorRaised
             /\ UNCHANGED <<lo_cache, lookups>>
  /\ pc' = "lifted"
  /\ UNCHANGED <<compileVars, appVars, resolverVars, selectVars, parserVars,
                 lift_request, bedVars, cacheVars>>

\* ------------------------------------------------- liftover of a BED text
MaxLines == 2      \* a BED text has at most MaxLines lines

\* a line is a text in pieces: separators, the byte-order mark and words
Bom == "BOM"
Whitespace == {" ", "\t"}

\* the lines a BED text is made of
HeaderLines ==
  {<<>>, <<" ", "\t">>, <<"#", "x">>, <<"track", " ", "name=foo">>, <<"browser", " ", "x">>}
DataLines ==
  {<<"chr", "1", "\t", "1", "\t", "2">>,
   <<"1", "\t", "2", "\t", "2", "\t", "geneA", "\t", "+">>,
   <<"chr", "1", ",", "1", ",", "1">>,
   <<"chr", "1", " ", "1", " ", "2">>,
   <<"MT", "\t", "1", "\t", "1">>,
   <<"chr", "1", "\t", "1">>,
   <<"chr", "1", "\t", "x", "\t", "2">>,
   <<" ", "#", "x">>,
   <<Bom, "#", "x">>,
   <<"chr", "1", "\t", "1", "\t", "2", "\t", "a", ",", "b", ",", "c">>,
   <<"\"", "chr", "1", "\"", ",", "\"", "1", "\"", ",", "2", ",", "\"", "geneB", "\"">>,
   <<"chr", "1", " ", "2", " ", "2", "\t", "a", ",", "b">>,
   <<Bom, "chr", "1", "\t", "1">>}
BedTexts == UNION {[1..n -> HeaderLines \cup DataLines] : n \in 0..MaxLines}

\* chains: the answer for each position of chr1 (an identity, an inversion,
\* a chromosome break after position 1, a gap at position 1)
ChainTables ==
  {[p \in 1..MaxPos |-> [chrom |-> <<"chr", "1">>, pos |-> p]],
   [p \in 1..MaxPos |-> [chrom |-> <<"chr", "1">>, pos |-> MaxPos + 1 - p]],
   [p \in 1..MaxPos |-> [chrom |-> IF p = 1 THEN <<"chr", "1">> ELSE <<"chr", "2">>,
                         pos |-> p]],
   [p \in 1..MaxPos |-> IF p = 1 THEN NoHit ELSE [chrom |-> <<"chr", "1">>, pos |-> p]]}

\* lo.convert_coordinate(chrom, pos): chr1 by the chain, chrM unchanged, no
\* answer for any other chromosome or position
convert_coordinate(lo, chrom, pos) ==
  IF chrom = <<"chr", "1">> /\ pos \in DOMAIN lo THEN lo[pos]
  ELSE IF chrom = <<"chr", "M">> THEN [chrom |-> chrom, pos |-> pos]
  ELSE NoHit

\* line.lstrip of the byte-order mark, liftover_utils.py:33
RECURSIVE LStripBom(_)
LStripBom(line) ==
  IF line # <<>> /\ Head(line) = Bom THEN LStripBom(Tail(line)) ELSE line

\* str.strip(chars) for a set of pieces
RECURSIVE StripOf(_, _)
StripOf(t, chars) ==
  IF t = <<>> THEN t
  ELSE IF Head(t) \in chars THEN StripOf(Tail(t), chars)
  ELSE IF t[Len(t)] \in chars THEN StripOf(SubSeq(t, 1, Len(t) - 1), chars)
  ELSE t

\* IsPassThrough that passes only comment lines through
IsPassThrough_CommentOnly(line) == line # <<>> /\ Head(line) = "#"

\* not line.strip() or line.startswith(('#', 'track', 'browser')), liftover_utils.py:35
IsPassThrough(line) ==
  StripOf(line, Whitespace) = <<>>
  \/ (line # <<>> /\ Head(line) \in {"#", "track", "browser"})

\* str.split() without separator
IsNotEmpty(t) == t # <<>>
TabToSpace(t) == [k \in 1..Len(t) |-> IF t[k] \in Whitespace THEN " " ELSE t[k]]
SplitWhitespace(t) == SelectSeq(Split(TabToSpace(t), " "), IsNotEmpty)

\* Fields that tries the commas before the tabs
Fields_CommaFirst(line) ==
  LET stripped == StripOf(line, Whitespace)
      by_tab   == Split(stripped, "\t")
      by_comma == [k \in 1..Len(Split(stripped, ",")) |->
                     StripOf(Split(stripped, ",")[k], {"\""})]
  IN IF Len(by_comma) >= 3 THEN by_comma
     ELSE IF Len(by_tab) >= 3 THEN by_tab
     ELSE SplitWhitespace(stripped)

\* the fields of a data line, liftover_utils.py:39-43
Fields(line) ==
  LET stripped == StripOf(line, Whitespace)
      by_tab   == Split(stripped, "\t")
      by_comma == [k \in 1..Len(Split(stripped, ",")) |->
                     StripOf(Split(stripped, ",")[k], {"\""})]
  IN IF Len(by_tab) >= 3 THEN by_tab
     ELSE IF Len(by_comma) >= 3 THEN by_comma
     ELSE SplitWhitespace(stripped)

\* liftover_utils.py:48-52
NormalizeChrom(chrom) ==
  LET prefixed == AddChrPrefix(chrom)
  IN IF prefixed = <<"chr", "MT">> THEN <<"chr", "M">> ELSE prefixed

\* int(field) succeeds on digits, blanks around them allowed
IsIntField(field) == IsDigitStr(StripOf(field, Whitespace))
IntField(field)   == ToInt(StripOf(field, Whitespace))

\* str(n) for the positions of the model
DigitText(n) == <<Digits[n + 1]>>

\* "\t".join(fields)
RECURSIVE JoinTabs(_)
JoinTabs(fields) ==
  IF fields = <<>> THEN <<>>
  ELSE IF Len(fields) = 1 THEN fields[1]
  ELSE fields[1] \o <<"\t">> \o JoinTabs(Tail(fields))

\* Annotated that keeps the reason only
Annotated_ReasonOnly(line, reason) == <<"\t", reason>>

\* line + "\t# <reason>"
Annotated(line, reason) == line \o <<"\t", reason>>

\* one iteration of the loop of _liftover_bed_content, liftover_utils.py:32-84:
\* where the line goes, what is appended and the coordinate lookups made
LineOutcome(lo, raw) ==
  LET line  == LStripBom(raw)
      parts == Fields(line)
  IN IF IsPassThrough(line)
     THEN [to |-> "converted", text |-> line, queries |-> <<>>]
     ELSE IF Len(parts) < 3
     THEN [to |-> "unmapped", text |-> Annotated(line, "# Invalid Format"), queries |-> <<>>]
     ELSE IF ~(IsIntField(parts[2]) /\ IsIntField(parts[3]))
     THEN [to |-> "unmapped", text |-> Annotated(line, "# Invalid Coordinates"),
           queries |-> <<>>]
     ELSE LET chrom == NormalizeChrom(parts[1])
              start == IntField(parts[2])
              end   == IntField(parts[3])
              rest  == SubSeq(parts, 4, Len(parts))
              new_start_list == convert_coordinate(lo, chrom, start)
              new_end_list   == convert_coordinate(lo, chrom, end)
              asked == <<Query(Hg19ToHg38Key, chrom, start, new_start_list),
                         Query(Hg19ToHg38Key, chrom, end, new_end_list)>>
          IN IF new_start_list = NoHit \/ new_end_list = NoHit
             THEN [to |-> "unmapped", text |-> Annotated(line, "# Mapping Failed"),
                   queries |-> asked]
             ELSE IF new_start_list.chrom # new_end_list.chrom
             THEN [to |-> "unmapped", text |-> Annotated(line, "# Split Mapping"),
                   queries |-> asked]
             ELSE LET new_start == Min(new_start_list.pos, new_end_list.pos)
                      new_end   == Max(new_start_list.pos, new_end_list.pos)
                  IN [to |-> "converted",
                      text |-> JoinTabs(<<new_start_list.chrom, DigitText(new_start),
                                          DigitText(new_end)>> \o rest),
                      queries |-> asked]

\* the lines appended to the list `to` by the loop over lines[1..n]
RECURSIVE LinesTo(_, _, _, _)
LinesTo(lo, lines, n, to) ==
  IF n = 0 THEN <<>>
  ELSE LinesTo(lo, lines, n - 1, to)
       \o (IF LineOutcome(lo, lines[n]).to = to
           THEN <<LineOutcome(lo, lines[n]).text>> ELSE <<>>)

\* the value of parts in each iteration that gets past the pass-through test
RECURSIVE PartsOf(_, _)
PartsOf(lines, n) ==
  IF n = 0 THEN <<>>
  ELSE PartsOf(lines, n - 1)
       \o (IF IsPassThrough(LStripBom(lines[n])) THEN <<>>
           ELSE <<Fields(LStripBom(lines[n]))>>)

RECURSIVE QueriesOf(_, _, _)
QueriesOf(lo, lines, n) ==
  IF n = 0 THEN <<>>
  ELSE QueriesOf(lo, lines, n - 1) \o LineOutcome(lo, lines[n]).queries

\* convert_bed_hg19_to_hg38, liftover_utils.py:89-92 with 24-86
ConvertBed ==
  /\ pc = "lift_bed"
  /\ lo_cache' = lo_cache \cup {Hg19ToHg38Key}
  /\ converted_lines' = LinesTo(chain, bed_content, Len(bed_content), "converted")
  /\ unmapped_lines' = LinesTo(chain, bed_content, Len(bed_content), "unmapped")
  /\ lookups' = QueriesOf(chain, bed_content, Len(bed_content))
  /\ parts_log' = PartsOf(bed_content, Len(bed_content))
  /\ pc' = "lifted_bed"
  /\ UNCHANGED <<compileVars, appVars, resolverVars, selectVars, parserVars,
                 lift_request, lift_result, bed_content, chain, cacheVars>>

InitLift ==
  /\ IdleCompile
  /\ IdleApp
  /\ IdleResolver
  /\ IdleSelect
  /\ IdleParser
  /\ IdleCache
  /\ lo_cache \in SUBSET ChainKeys
  /\ lookups = <<>>
  /\ lift_result = NoResult
  /\ converted_lines = <<>>
  /\ unmapped_lines = <<>>
  /\ parts_log = <<>>
  /\ \/ /\ pc = "lift_region"
        /\ lift_request \in LiftRequests
        /\ bed_content = <<>>
        /\ chain = <<>>
     \/ /\ pc = "lift_bed"
        /\ lift_request = NoRequest
        /\ bed_content \in BedTexts
        /\ chain \in ChainTables

NextLift == LiftRegion \/ ConvertBed

SpecLift == InitLift /\ [][NextLift]_vars

\* ------------------------------------------------- _get_lo called by several threads
MaxCalls == 2      \* each thread calls _get_lo at most MaxCalls times
Threads  == {1, 2} \* script threads of the process; they share the module

NoObject   == 0
IdleThread == [pc |-> "idle", key |-> "", obj |-> NoObject, calls |-> 0]

\* the variables no _get_lo step touches
outsideCache == <<compileVars, pc, appVars, resolverVars, selectVars, parserVars,
                  lift_request, lift_result, lookups, bedVars>>

\* _get_lo(...) is entered; key = chain_file or f"{from_db}->{to_db}"
GetLoEnter(t) ==
  /\ pc = "threads"
  /\ threads[t].pc = "idle"
  /\ threads[t].calls < MaxCalls
  /\ \E key \in ChainKeys :
       threads' = [threads EXCEPT ![t].pc = "test", ![t].key = key]
  /\ UNCHANGED <<lo_objects, built, returned, lo_cache, outsideCache>>

\* if key not in _lo_cache
GetLoTest(t) ==
  /\ pc = "threads"
  /\ threads[t].pc = "test"
  /\ threads' = [threads EXCEPT ![t].pc =
                   IF lo_objects[threads[t].key] # NoObject THEN "return" ELSE "construct"]
  /\ UNCHANGED <<lo_objects, built, returned, lo_cache, outsideCache>>

\* LiftOver(...) returns a new object
GetLoConstruct(t) ==
  /\ pc = "threads"
  /\ threads[t].pc = "construct"
  /\ built' = [built EXCEPT ![threads[t].key] = @ + 1]
  /\ threads' = [threads EXCEPT ![t].pc = "store", ![t].obj = built[threads[t].key] + 1]
  /\ UNCHANGED <<lo_objects, returned, lo_cache, outsideCache>>

\* LiftOver(...) raises (the chain file cannot be fetched or read): the call
\* ends and nothing is stored
GetLoConstructFails(t) ==
  /\ pc = "threads"
  /\ threads[t].pc = "construct"
  /\ threads' = [threads EXCEPT ![t].pc = "idle", ![t].calls = @ + 1]
  /\ UNCHANGED <<lo_objects, built, returned, lo_cache, outsideCache>>

\* _lo_cache[key] = <the new object>
GetLoStore(t) ==
  /\ pc = "threads"
  /\ threads[t].pc = "store"
  /\ lo_objects' = [lo_objects EXCEPT ![threads[t].key] = threads[t].obj]
  /\ lo_cache' = lo_cache \cup {threads[t].key}
  /\ threads' = [threads EXCEPT ![t].pc = "return", ![t].obj = NoObject]
  /\ UNCHANGED <<built, returned, outsideCache>>

\* return _lo_cache[key]
GetLoReturn(t) ==
  /\ pc = "threads"
  /\ threads[t].pc = "return"
  /\ returned' = [returned EXCEPT ![threads[t].key] = @ \cup {lo_objects[threads[t].key]}]
  /\ threads' = [threads EXCEPT ![t].pc = "idle", ![t].calls = @ + 1]
  /\ UNCHANGED <<lo_objects, built, lo_cache, outsideCache>>

InitCache ==
  /\ IdleCompile
  /\ IdleApp
  /\ IdleResolver
  /\ IdleSelect
  /\ IdleParser
  /\ IdleLift
  /\ pc = "threads"
  /\ threads = [t \in Threads |-> IdleThread]
  /\ lo_objects = [k \in ChainKeys |-> NoObject]
  /\ built = [k \in ChainKeys |-> 0]
  /\ returned = [k \in ChainKeys |-> {}]

NextCache ==
  \/ \E t \in Threads : GetLoEnter(t)
  \/ \E t \in Threads : GetLoTest(t)
  \/ \E t \in Threads : GetLoConstruct(t)
  \/ \E t \in Threads : GetLoConstructFails(t)
  \/ \E t \in Threads : GetLoStore(t)
  \/ \E t \in Threads : GetLoReturn(t)

SpecCache == InitCache /\ [][NextCache]_vars

\* ------------------------------------------------- vocabulary of the liftover claims
\* the outcome that two answers (for start and for end) call for
PairOutcome(qs, qe) ==
  IF qs.answer = NoHit \/ qe.answer = NoHit THEN "failed"
  ELSE IF qs.answer.chrom # qe.answer.chrom THEN "split"
  ELSE "mapped"

LowerPos(qs, qe) == IF qs.answer.pos <= qe.answer.pos THEN qs.answer.pos ELSE qe.answer.pos
UpperPos(qs, qe) == IF qs.answer.pos <= qe.answer.pos THEN qe.answer.pos ELSE qs.answer.pos

\* the lookups come in pairs, one for start and one for end
PairCount == Len(lookups) \div 2
PairsWith(outcome) ==
  {i \in 1..PairCount : PairOutcome(lookups[2 * i - 1], lookups[2 * i]) = outcome}

CountLines(lines, reason) ==
  Cardinality({k \in 1..Len(lines) : lines[k] # <<>> /\ lines[k][Len(lines[k])] = reason})

IsRegionLine(l) == l # <<>> /\ Head(l) = "chr"
RegionLines == SelectSeq(converted_lines, IsRegionLine)

\* the i-th pair of lookups with outcome "mapped" is the j-th such pair
MappedRank(i) == Cardinality({h \in PairsWith("mapped") : h <= i})

\* the single-region conversion behaves as the claim says, a split mapping
\* being reported with the given reason
RegionRule(split_reason) ==
  (pc = "lifted" /\ lookups # <<>>) =>
    LET n  == Len(lookups)
        qs == lookups[n - 1]
        qe == lookups[n]
    IN /\ n \in {2, 4}
       /\ lookups[1].pos = lift_request.start /\ lookups[2].pos = lift_request.end
       /\ lookups[1].chrom = lookups[2].chrom
       /\ PairOutcome(qs, qe) = "failed" => lift_result.kind = "None"
       /\ PairOutcome(qs, qe) = "split" =>
            lift_result.kind = "None" /\ lift_result.reason = split_reason
       /\ PairOutcome(qs, qe) = "mapped" =>
            /\ lift_result = Region(qs.answer.chrom, LowerPos(qs, qe), UpperPos(qs, qe))
            /\ lift_result.start <= lift_result.end

\* the conversion of a BED text behaves as the claim says
BedRule ==
  pc = "lifted_bed" =>
    /\ Len(lookups) = 2 * PairCount
    /\ \A i \in 1..PairCount : lookups[2 * i - 1].chrom = lookups[2 * i].chrom
    /\ Cardinality(PairsWith("failed")) = CountLines(unmapped_lines, "# Mapping Failed")
    /\ Cardinality(PairsWith("split")) = CountLines(unmapped_lines, "# Split Mapping")
    /\ Cardinality(PairsWith("mapped")) = Len(RegionLines)
    /\ \A i \in PairsWith("mapped") :
         LET l  == RegionLines[MappedRank(i)]
             qs == lookups[2 * i - 1]
             qe == lookups[2 * i]
         IN /\ Len(l) >= Len(qs.answer.chrom) + 4
            /\ SubSeq(l, 1, Len(qs.answer.chrom) + 4) =
                 qs.answer.chrom \o <<"\t">> \o DigitText(LowerPos(qs, qe))
                                 \o <<"\t">> \o DigitText(UpperPos(qs, qe))

\* C17 (as stated): region liftover maps start and end independently; the
\* region is unmapped if either position fails to map, unmapped with reason
\* 'split mapping' if the two mapped positions lie on different chromosomes,
\* and otherwise emitted on the mapped chromosome with start <= end, the two
\* values swapped when the mapped start exceeds the mapped end.
C17_RegionLiftoverAsStated == RegionRule("split mapping") /\ BedRule

\* C17 (amended): as stated, except that the reason is given only by the
\* conversion of a BED text (the line is annotated '# Split Mapping'); the
\* single-region conversion returns None without any reason, for a split
\* mapping as for a position that fails to map.
C17_RegionLiftover == RegionRule("") /\ BedRule

\* a single region whose mapped start exceeds its mapped end on the same
\* chromosome is returned with the two values swapped
C17_Witness ==
  /\ pc = "lifted" /\ Len(lookups) = 2
  /\ lookups[1].answer # NoHit /\ lookups[2].answer # NoHit
  /\ lookups[1].answer.chrom = lookups[2].answer.chrom
  /\ lookups[1].answer.pos > lookups[2].answer.pos
  /\ lift_result.kind = "region"
  /\ lift_result.start = lookups[2].answer.pos
  /\ lift_result.end = lookups[1].answer.pos

\* the assembly a (lower-cased) build name stands for
Assembly(b) ==
  IF b \in {"hg19", "grch37"} THEN "hg19"
  ELSE IF b \in {"hg38", "grch38"} THEN "hg38"
  ELSE IF b \in {"t2t", "hs1", "chm13"} THEN "t2t"
  ELSE b

\* the assembly pairs with a registered chain, and the chain's cache key
RegisteredChain(a, b) ==
  IF a = "hg19" /\ b = "hg38" THEN Hg19ToHg38Key
  ELSE IF a = "hg38" /\ b = "t2t" THEN Hg38ToT2TKey
  ELSE "none"

RequestFrom == Assembly(LowerBuild(lift_request.from_build))
RequestTo   == Assembly(LowerBuild(lift_request.to_build))
SameName    == LowerBuild(lift_request.from_build) = LowerBuild(lift_request.to_build)

\* the lookups i and i+1 ask the chain `key` for the positions s and e of chrom
HopAsks(i, key, chrom, s, e) ==
  /\ lookups[i].key = key /\ lookups[i + 1].key = key
  /\ lookups[i].chrom = chrom /\ lookups[i + 1].chrom = chrom
  /\ lookups[i].pos = s /\ lookups[i + 1].pos = e

\* the result is the one the hop made of lookups i and i+1 calls for
HopResult(i) ==
  IF PairOutcome(lookups[i], lookups[i + 1]) = "mapped"
  THEN lift_result = Region(lookups[i].answer.chrom,
                            LowerPos(lookups[i], lookups[i + 1]),
                            UpperPos(lookups[i], lookups[i + 1]))
  ELSE lift_result.kind = "None"

\* C18: for two different build names, a registered chain of the assembly
\* pair is used directly; otherwise hg19 to T2T is mapped through hg38, with
\* an unmapped result when either hop is unmapped; any other pair raises
\* ValueError instead of returning an unmapped result.
C18_ChainSelection ==
  (pc = "lifted" /\ ~SameName) =>
    IF RegisteredChain(RequestFrom, RequestTo) # "none"
    THEN /\ Len(lookups) = 2
         /\ HopAsks(1, RegisteredChain(RequestFrom, RequestTo),
                    AddChrPrefix(lift_request.chrom), lift_request.start, lift_request.end)
         /\ HopResult(1)
    ELSE IF RequestFrom = "hg19" /\ RequestTo = "t2t"
    THEN /\ Len(lookups) >= 2
         /\ HopAsks(1, Hg19ToHg38Key, AddChrPrefix(lift_request.chrom),
                    lift_request.start, lift_request.end)
         /\ IF PairOutcome(lookups[1], lookups[2]) # "mapped"
            THEN Len(lookups) = 2 /\ lift_result.kind = "None"
            ELSE /\ Len(lookups) = 4
                 /\ HopAsks(3, Hg38ToT2TKey, lookups[1].answer.chrom,
                            LowerPos(lookups[1], lookups[2]),
                            UpperPos(lookups[1], lookups[2]))
                 /\ HopResult(3)
    ELSE /\ lift_result.kind = "ValueError"
         /\ lookups = <<>>

\* hg19 to T2T: both hops mapped and the region of the second hop is returned
C18_Witness ==
  /\ pc = "lifted"
  /\ RequestFrom = "hg19" /\ RequestTo = "t2t"
  /\ Len(lookups) = 4
  /\ lookups[1].key = Hg19ToHg38Key /\ lookups[3].key = Hg38ToT2TKey
  /\ lift_result.kind = "region"

\* C19: a request whose source and target build names are equal (whatever
\* their letter case) returns chromosome, start and end as given, asks no
\* chain and leaves the cache of loaded chains as it was.
C19_Step ==
  (pc = "lift_region" /\ pc' = "lifted" /\ SameName) =>
    /\ lift_result' = Region(lift_request.chrom, lift_request.start, lift_request.end)
    /\ lookups' = <<>>
    /\ lo_cache' = lo_cache

IsBlankLine(l) == \A k \in 1..Len(l) : l[k] \in Whitespace
IsHeaderLike(l) == IsBlankLine(l) \/ l[1] \in {"#", "track", "browser"}
IsHeaderLikeAfterBom(l) == IsHeaderLike(LStripBom(l))
IsNoRegionLine(l) == ~IsRegionLine(l)

\* the unmapped output holds no line made from the input line l
NotInUnmapped(l) ==
  \A j \in 1..Len(unmapped_lines) :
    /\ unmapped_lines[j] # l
    /\ SubSeq(unmapped_lines[j], 1, Len(unmapped_lines[j]) - 2) # l

\* C20 (as stated): every blank line and every line starting with '#',
\* 'track' or 'browser' appears verbatim in the converted output at its input
\* position and never appears in the unmapped output.
C20_HeadersInPlaceAsStated ==
  pc = "lifted_bed" =>
    \A k \in 1..Len(bed_content) :
      IsHeaderLike(bed_content[k]) =>
        /\ k <= Len(converted_lines)
        /\ converted_lines[k] = bed_content[k]
        /\ NotInUnmapped(bed_content[k])

\* C20 (amended): every blank line and every line starting with '#', 'track'
\* or 'browser' appears verbatim in the converted output and never in the
\* unmapped output; these lines keep their input order, but a line's position
\* in the converted output is its input position less the number of earlier
\* lines that went to the unmapped output.  (Lines that are header-like once
\* leading byte-order marks are removed pass through too, without the marks.)
C20_HeadersPassThrough ==
  pc = "lifted_bed" =>
    /\ Len(converted_lines) + Len(unmapped_lines) = Len(bed_content)
    /\ [k \in 1..Len(SelectSeq(bed_content, IsHeaderLikeAfterBom)) |->
          LStripBom(SelectSeq(bed_content, IsHeaderLikeAfterBom)[k])]
         = SelectSeq(converted_lines, IsNoRegionLine)
    /\ \A k \in 1..Len(bed_content) :
         IsHeaderLike(bed_content[k]) =>
           /\ NotInUnmapped(bed_content[k])
           /\ \E u \in 0..Len(unmapped_lines) :
                /\ u < k
                /\ k - u <= Len(converted_lines)
                /\ converted_lines[k - u] = bed_content[k]

\* a header line that follows an unmapped data line stands first in the
\* converted output
C20_Witness ==
  /\ pc = "lifted_bed"
  /\ Len(bed_content) = 2
  /\ bed_content[2] = <<"track", " ", "name=foo">>
  /\ converted_lines = <<bed_content[2]>>
  /\ Len(unmapped_lines) = 1

\* ------------------------------------------------- vocabulary of the BED line claims
\* the data lines of the input, in input order: neither blank nor header
IsDataLine(l) == ~IsHeaderLikeAfterBom(l)
DataLinesOf(text) == SelectSeq(text, IsDataLine)

\* the three ways to cut a data line into fields
TabFields(l)   == Split(StripOf(LStripBom(l), Whitespace), "\t")
Unquoted(f)    == StripOf(f, {"\""})
CommaFields(l) ==
  LET cut == Split(StripOf(LStripBom(l), Whitespace), ",")
  IN [k \in 1..Len(cut) |-> Unquoted(cut[k])]
WordFields(l)  == SplitWhitespace(StripOf(LStripBom(l), Whitespace))

TooFewUnderAll(l) ==
  Len(TabFields(l)) < 3 /\ Len(CommaFields(l)) < 3 /\ Len(WordFields(l)) < 3

\* the input line l stands in the unmapped output with the given reason
UnmappedAs(l, reason) ==
  \E j \in 1..Len(unmapped_lines) :
    unmapped_lines[j] = LStripBom(l) \o <<"\t", reason>>

\* C21: each data line is cut by tabs first, by commas (quote characters
\* stripped) only if tabs give fewer than three fields, by generic whitespace
\* only if commas also give fewer than three; a line with fewer than three
\* fields under all three is in the unmapped output with reason 'invalid
\* format' and is never passed to the coordinate mapping.
C21_Tokenization ==
  pc = "lifted_bed" =>
    LET data == DataLinesOf(bed_content)
        few  == {i \in 1..Len(data) : TooFewUnderAll(data[i])}
    IN /\ Len(parts_log) = Len(data)
       /\ \A i \in 1..Len(data) :
            parts_log[i] = IF Len(TabFields(data[i])) >= 3 THEN TabFields(data[i])
                           ELSE IF Len(CommaFields(data[i])) >= 3 THEN CommaFields(data[i])
                           ELSE WordFields(data[i])
       /\ \A i \in few : UnmappedAs(data[i], "# Invalid Format")
       /\ Cardinality(few) = CountLines(unmapped_lines, "# Invalid Format")
       /\ Len(lookups) <= 2 * (Len(data) - Cardinality(few))

\* a quoted comma-separated line was cut at its commas and converted, and a
\* line of two fields went to the unmapped output without any lookup
C21_Witness ==
  /\ pc = "lifted_bed"
  /\ parts_log = << <<<<"chr", "1">>, <<"1">>, <<"2">>, <<"geneB">>>>,
                    <<<<"chr", "1">>, <<"1">>>> >>
  /\ unmapped_lines = << <<"chr", "1", "\t", "1", "\t", "# Invalid Format">> >>
  /\ Len(lookups) = 2
  /\ Len(converted_lines) = 1

\* C22 (as stated): the chain mapping of an assembly pair is constructed at
\* most once, under any interleaving of concurrent first uses of the pair;
\* every request for the pair gets the same mapping object, and the object
\* stored for the pair is never replaced.
C22_SingleFlightAsStated ==
  pc = "threads" =>
    \A k \in ChainKeys :
      /\ built[k] <= 1
      /\ Cardinality(returned[k]) <= 1
      /\ lo_objects[k] # NoObject => lo_objects[k] = 1

\* ------------------------------------------------- the compiler called again
IsCompileCall == (pc = "compile" /\ pc' = "pad") \/ (pc = "done" /\ pc' = "recompiled")

C23_Step ==
  IsCompileCall =>
    /\ transcript_info' = transcript_info
    /\ cfg' = cfg
    /\ pc = "done" => records' = records

TranscriptPos(ex) == CHOOSE k \in DOMAIN transcript_info.exons : transcript_info.exons[k] = ex

IntronRecords == {r \in RecordSet : r.region = "intron"}

\* C24: with N exons, the intron between the genomically consecutive exons i
\* and i+1 (0-based) is numbered k = i+1 on the forward strand and k = N-i-1
\* on the reverse strand, which places it between the transcript-order exons
\* k and k+1; intron numbers lie in 1..N-1.
C24_IntronNumbering ==
  (Compiled /\ cfg.include_intron) =>
    LET N == Cardinality(ExonSet)
    IN /\ \A r \in IntronRecords : r.num \in 1..(N - 1)
       /\ \A a, b \in ExonSet :
            (NextExon(a, b) /\ a.end + 1 < b.start) =>
              \E r \in IntronRecords :
                /\ Bases(r) = (a.end + 1)..(b.start - 1)
                /\ r.num = IF transcript_info.strand = 1
                           THEN GenomicPos(a) + 1
                           ELSE N - GenomicPos(a) - 1
                /\ {TranscriptPos(a), TranscriptPos(b)} = {r.num, r.num + 1}
                /\ \A q \in IntronRecords : Bases(q) = Bases(r) => q = r

\* a reverse-strand transcript of three exons: the intron with the higher
\* coordinates is intron 1, the one with the lower coordinates intron 2
C24_Witness ==
  /\ Compiled /\ cfg.include_intron
  /\ transcript_info.strand = -1 /\ Cardinality(ExonSet) = 3
  /\ \E r, q \in IntronRecords : r.num = 1 /\ q.num = 2 /\ q.end < r.start

\* ------------------------------------------------- flanks
\* the len bases immediately below the lowest exon start, as far as the
\* chromosome has them (its first base is base 1, genomic position 0)
BasesBelow(len) == {b \in 1..MaxCoord : LowestStart - len <= b /\ b < LowestStart}
BasesAbove(len) == {b \in 1..(MaxCoord + MaxFlank + 1) : HighestEnd < b /\ b <= HighestEnd + len}

FlankRecords(region) == {k \in DOMAIN records : records[k].region = region}

\* the flank `region` of length len covers exactly the bases B, with one
\* interval, or is dropped when B is empty
FlankCovers(region, B) ==
  IF B = {}
  THEN FlankRecords(region) = {}
  ELSE /\ Cardinality(FlankRecords(region)) = 1
       /\ \A k \in FlankRecords(region) :
            /\ Bases(records[k]) = B
            /\ records[k].start >= 0

\* C25: on the forward strand the promoter flank covers the flank-length
\* bases immediately below the lowest exon start and the downstream flank the
\* bases immediately above the highest exon end; the reverse strand swaps the
\* two sides; a flank reaching below the chromosome start is truncated at
\* genomic position 0 and dropped when the truncated span is empty.
C25_StrandAwareFlanks ==
  Compiled =>
    IF transcript_info.strand = 1
    THEN /\ FlankCovers("promoter_5prime", BasesBelow(cfg.flank_5_prime))
         /\ FlankCovers("downstream_3prime", BasesAbove(cfg.flank_3_prime))
    ELSE /\ FlankCovers("promoter_5prime", BasesAbove(cfg.flank_5_prime))
         /\ FlankCovers("downstream_3prime", BasesBelow(cfg.flank_3_prime))

\* reverse strand, lowest exon start at base 2: the downstream flank of two
\* bases is cut to the one interval (0, 1), the promoter lies above
C25_Witness ==
  /\ Compiled /\ transcript_info.strand = -1
  /\ cfg.flank_3_prime = 2 /\ cfg.flank_5_prime = 2 /\ LowestStart = 2
  /\ \E k \in DOMAIN records :
       records[k].region = "downstream_3prime" /\ records[k].start = 0 /\ records[k].end = 1
  /\ \E k \in DOMAIN records :
       records[k].region = "promoter_5prime" /\ records[k].start = HighestEnd

\* ------------------------------------------------- the canonical transcript of a gene
Flagged(ts)     == {k \in DOMAIN ts : ts[k].is_canonical = 1}
LongestSpan(ts) ==
  {k \in DOMAIN ts : \A j \in DOMAIN ts : ts[j].end - ts[j].start <= ts[k].end - ts[k].start}

\* C27 (as stated): whenever a canonical transcript is chosen from a gene's
\* transcript list, a flagged transcript is chosen if any is flagged, else a
\* transcript of the longest genomic span (end - start); an empty list yields
\* no canonical id.
C27_CanonicalChoiceAsStated ==
  pc = "selected" =>
    \A r \in mapped_df :
      r.MANE_status = "Ensembl Canonical" =>
        LET ts == ensembl[r.original_input].Transcript
        IN /\ ts # <<>>
           /\ \E k \in (IF Flagged(ts) # {} THEN Flagged(ts) ELSE LongestSpan(ts)) :
                r.Ensembl_nuc = ts[k].id

\* ------------------------------------------------- the cost of resolving one gene
InResolver == pc \in {"lookup", "after_lookup"}

RequestBounds ==
  /\ tally.canonical <= 1
  /\ tally.rounds <= 2
  /\ tally.direct <= tally.rounds * AttemptBudget
  /\ Len(round_log) <= AttemptBudget
  /\ InResolver => tally.rounds >= 1

\* C26: the resolution of one gene ends, whatever the service answers, after
\* at most one canonical-transcript lookup and at most two direct-lookup
\* rounds (the requested id, then one canonical-fallback id) of at most
\* AttemptBudget requests each.
C26_BoundedResolution == []RequestBounds /\ (InResolver ~> ~InResolver)

\* a resolution that used everything: both requests of the first round
\* failed, the canonical lookup gave another id, both requests of the second
\* round failed too, and the resolver has returned
C26_Witness ==
  /\ pc = "process"
  /\ tally.canonical = 1 /\ tally.rounds = 2 /\ tally.direct = 2 * AttemptBudget
  /\ transcript_info = NoInfo

\* ------------------------------------------------- every data line is accounted for
Reasons == {"# Invalid Format", "# Invalid Coordinates", "# Mapping Failed", "# Split Mapping"}

\* the columns of a data line, cut as C21 says
ColumnsOf(l) ==
  IF Len(TabFields(l)) >= 3 THEN TabFields(l)
  ELSE IF Len(CommaFields(l)) >= 3 THEN CommaFields(l)
  ELSE WordFields(l)

\* out is a converted line made from the data line l: chromosome, start and
\* end, then the columns of l after start and end
ConvertedFrom(out, l) ==
  /\ Len(ColumnsOf(l)) >= 3
  /\ Len(Split(out, "\t")) = Len(ColumnsOf(l))
  /\ SubSeq(Split(out, "\t"), 4, Len(Split(out, "\t")))
       = SubSeq(ColumnsOf(l), 4, Len(ColumnsOf(l)))
  /\ \A c \in 2..3 : IsDigitStr(Split(out, "\t")[c])

\* out is the line `kept` with a reason annotation appended
UnmappedFrom(out, kept) == \E reason \in Reasons : out = kept \o <<"\t", reason>>

\* the data lines go, each to exactly one output and in input order, either
\* to the converted output or to the unmapped output, there with or without
\* their leading byte-order marks
Accounted(with_bom) ==
  LET data == DataLinesOf(bed_content)
      n    == Len(data)
      conv == DataLinesOf(converted_lines)
  IN \E f \in [1..n -> {"converted", "unmapped"}] :
       LET ToConverted(i) == f[i] = "converted"
           ToUnmapped(i)  == f[i] = "unmapped"
           dc == SelectSeq([i \in 1..n |-> i], ToConverted)
           du == SelectSeq([i \in 1..n |-> i], ToUnmapped)
       IN /\ Len(dc) = Len(conv)
          /\ Len(du) = Len(unmapped_lines)
          /\ \A j \in 1..Len(dc) : ConvertedFrom(conv[j], data[dc[j]])
          /\ \A j \in 1..Len(du) :
               UnmappedFrom(unmapped_lines[j],
                            IF with_bom THEN data[du[j]] ELSE LStripBom(data[du[j]]))

\* C28 (as stated): every data line yields exactly one line in exactly one of
\* the two outputs, in input order: a converted line whose trailing columns
\* equal the input's columns after start/end, or the full original line with
\* a reason annotation appended; no data line is dropped, duplicated or
\* placed in both outputs.
C28_EveryLineAccountedAsStated == pc = "lifted_bed" => Accounted(TRUE)

\* C28 (amended): as stated, except that the line in the unmapped output is
\* the original line without its leading byte-order marks, followed by the
\* reason annotation.
C28_EveryLineAccounted == pc = "lifted_bed" => Accounted(FALSE)

\* two data lines: the first is converted and carries its two trailing
\* columns, the second has two fields and stands annotated in the unmapped
\* output
C28_Witness ==
  /\ pc = "lifted_bed"
  /\ bed_content = << <<"1", "\t", "2", "\t", "2", "\t", "geneA", "\t", "+">>,
                      <<"chr", "1", "\t", "1">> >>
  /\ Len(converted_lines) = 1
  /\ SubSeq(Split(converted_lines[1], "\t"), 4, 5) = << <<"geneA">>, <<"+">> >>
  /\ unmapped_lines = << <<"chr", "1", "\t", "1", "\t", "# Invalid Format">> >>

\* ------------------------------------------------- the pieces of an exon
\* positions in records of the intervals cut from exon ex
IsPieceOf(r, ex) == r.region = "exon" /\ ex.start <= r.start + 1 /\ r.end <= ex.end
PieceIndexes(ex) == {k \in DOMAIN records : IsPieceOf(records[k], ex)}

\* number of bases of the intervals cut from ex among records[1..n]
RECURSIVE EmittedBases(_, _)
EmittedBases(ex, n) ==
  IF n = 0 THEN 0
  ELSE EmittedBases(ex, n - 1)
       + (IF IsPieceOf(records[n], ex) THEN records[n].end - records[n].start ELSE 0)

\* the bases of ex of one UTR type
Utr5Bases(ex) == IF transcript_info.strand = 1 THEN BelowCds(ex) ELSE AboveCds(ex)
Utr3Bases(ex) == IF transcript_info.strand = 1 THEN AboveCds(ex) ELSE BelowCds(ex)

\* C29: for a transcript with CDS boundaries (cds_start <= cds_end), the
\* intervals emitted for an exon do not overlap pairwise; with both UTR flags
\* set their union is the exon's span and their bases sum to end - start + 1;
\* with a UTR flag unset, exactly the exon's bases of that UTR type are missing.
C29_ExonPartition ==
  (Compiled /\ HasCds /\ transcript_info.cds_start <= transcript_info.cds_end) =>
    \A ex \in ExonSet :
      LET covered == UNION {Bases(records[k]) : k \in PieceIndexes(ex)}
      IN /\ \A j, k \in PieceIndexes(ex) :
              j # k => Bases(records[j]) \cap Bases(records[k]) = {}
         /\ ExonBases(ex) \ covered =
              (IF cfg.include_5utr THEN {} ELSE Utr5Bases(ex))
              \cup (IF cfg.include_3utr THEN {} ELSE Utr3Bases(ex))
         /\ covered \subseteq ExonBases(ex)
         /\ EmittedBases(ex, Len(records)) = Cardinality(covered)
         /\ (cfg.include_5utr /\ cfg.include_3utr) =>
              /\ covered = ExonBases(ex)
              /\ EmittedBases(ex, Len(records)) = ex.end - ex.start + 1

\* an exon with bases of all three kinds: cut in three with both flags set
C29_Witness ==
  /\ Compiled /\ HasCds /\ cfg.include_5utr /\ cfg.include_3utr
  /\ \E ex \in ExonSet :
       /\ Utr5Bases(ex) # {} /\ InCds(ex) # {} /\ Utr3Bases(ex) # {}
       /\ Cardinality(PieceIndexes(ex)) = 3
       /\ EmittedBases(ex, Len(records)) = ex.end - ex.start + 1

\* an exon with bases of all three kinds and the 5'UTR flag unset: the CDS
\* and the 3'UTR piece are emitted, the 5'UTR bases are missing
C29_WitnessFlagUnset ==
  /\ Compiled /\ HasCds /\ ~cfg.include_5utr /\ cfg.include_3utr
  /\ \E ex \in ExonSet :
       /\ Utr5Bases(ex) # {} /\ InCds(ex) # {} /\ Utr3Bases(ex) # {}
       /\ Cardinality(PieceIndexes(ex)) = 2

\* ------------------------------------------------- a record without CDS is given up
NeverSucceeded == \A k \in 1..Len(round_log) : round_log[k] # "ok"

C30_Step ==
  /\ (LeavesLoop /\ fetched_data # NoData /\ fetched_data.cds_start = None
        /\ call.gene_symbol # NoSymbol)
       => IF tally'.alt_id \notin {NoId, call.transcript_id}
          THEN /\ pc' = "lookup"
               /\ call' = [transcript_id |-> tally'.alt_id, gene_symbol |-> NoSymbol]
               /\ fetched_data' = NoData /\ round_log' = <<>> /\ attempt' = 0
               /\ tally'.trigger = "no_cds"
               /\ transcript_info' = transcript_info
          ELSE /\ pc' = "process"
               /\ transcript_info' = BuildInfo(call.transcript_id, fetched_data)
  /\ (LeavesLoop /\ tally.trigger = "no_cds")
       => /\ call = [transcript_id |-> tally.alt_id, gene_symbol |-> NoSymbol]
          /\ pc' = "process"
          /\ transcript_info' = IF NeverSucceeded THEN NoInfo
                                ELSE BuildInfo(tally.alt_id, fetched_data)

\* C30: when the direct lookup succeeded without CDS, a gene symbol is given
\* and the canonical id found differs from the requested id, the result is
\* that of resolving the canonical id alone: the record already fetched is
\* dropped, so a failed lookup of the canonical id yields not-found; when the
\* canonical id is absent or equal to the requested id, the fetched model
\* without CDS is returned.
C30_NoCdsRecordDropped == [][C30_Step]_vars

\* the requested id resolved to a record without CDS, the lookup of the
\* canonical id never succeeded, and the gene is not found
C30_Witness ==
  /\ pc = "process" /\ transcript_info = NoInfo
  /\ tally.trigger = "no_cds" /\ tally.rounds = 2
  /\ tally.direct > AttemptBudget

====
